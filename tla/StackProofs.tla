---------------------------- MODULE StackProofs ----------------------------
(***************************************************************************)
(* For any lengths, hosts, ports, words, targets, interfaces and programs, *)
(* every safety property of the receive path.  In this order: what the     *)
(* operations on a buffer keep (buf.c), how far the receive buffer moves and *)
(* where answers go; the arithmetic of the checksum (utils.c), that every  *)
(* protocol has its handler (net.c), and what that makes of a datagram; what *)
(* reports quote; the records of ping (icmp.c); the choice of the interface *)
(* (driver.c); types.                                                      *)
(***************************************************************************)
EXTENDS Stack, TimedMapTheorems, SequenceTheorems

Bufs(S) == [data : Nat, len : Nat, payload : S]

LEMMA OriginInside == Origin \in Nat /\ Origin <= BufMaxLen
BY BufAssumption DEF Origin

-----------------------------------------------------------------------------
(* buf.c *)

\* Whatever is put before a packet or behind it, or taken from it, it stays
\* inside the array, for any number of bytes: a call that does not fit fails.
LEMMA OperationsStayInArray ==
  ASSUME NEW S, NEW b \in Bufs(S), InArray(b), NEW n \in Nat
  PROVE  /\ InArray(buf_init(b, n))
         /\ InArray(buf_add_header(b, n)) /\ InArray(buf_remove_header(b, n))
         /\ InArray(buf_add_padding(b, n)) /\ InArray(buf_remove_padding(b, n))
BY OriginInside, BufAssumption
   DEF Bufs, InArray, buf_init, buf_add_header, buf_remove_header, buf_add_padding,
       buf_remove_padding

\* What is added can be taken away: the packet is where it was.
LEMMA HeaderRoundTrip ==
  ASSUME NEW S, NEW b \in Bufs(S), NEW n \in Nat, n <= b.data
  PROVE  buf_remove_header(buf_add_header(b, n), n) = b
BY DEF Bufs, buf_add_header, buf_remove_header

\* A packet that was built from buf_init's place on is copied as it is.
LEMMA BuiltIsCopied ==
  ASSUME NEW S, NEW b \in Bufs(S), NEW n \in Nat, NEW h \in Nat, n + h < Origin
  PROVE  LET c == buf_add_header(buf_init(b, n), h) IN buf_copy(c) = c
BY OriginInside DEF Bufs, buf_copy, buf_init, buf_add_header

-----------------------------------------------------------------------------
(* A frame on its way up *)

\* What one frame can make the buffer move: its IP header as long as any states.
Headers == EthLen + HdrLenMax + UdpLen

Stated(f) == f.kind # "noise" => f.hlen \in 0..HdrLenMax

LEMMA ArrivalsStated == ASSUME NEW f \in Arrivals PROVE Stated(f)
<1>1. HdrLens \subseteq 0..HdrLenMax /\ Whole \subseteq HdrLens /\ IpLen \in HdrLens
  BY LengthsAssumption DEF Whole
<1>2. CASE f \in Plain
  BY <1>2 DEF Plain, Stated
<1>3. CASE f \in Echo \cup Report \cup Foreign
  BY <1>1, <1>3 DEF Echo, Report, Foreign, Stated
<1>4. CASE f \in {Answer(w) : w \in wire}
  BY <1>1, <1>4 DEF Answer, Stated
<1>5. CASE f \in Udp
  <2>1. PICK p \in Peers, h \in Whole, port \in Ports, data \in Payloads :
          f \in Damaged(Datagram(p, h, port, data))
    BY <1>5 DEF Udp
  <2>2. PICK d : d = Datagram(p, h, port, data)
    OBVIOUS
  <2>3. d.hlen = h
    BY <2>2 DEF Datagram
  <2>4. \/ \E w : f = [d EXCEPT !.port = w]
        \/ \E w : f = [d EXCEPT !.data = w]
        \/ \E w : f = [d EXCEPT !.check = w]
    BY <2>1, <2>2 DEF Damaged
  <2>5. f.hlen = h
    BY <2>2, <2>3, <2>4 DEF Datagram
  <2> QED BY <1>1, <2>5 DEF Stated
<1> QED BY <1>2, <1>3, <1>4, <1>5 DEF Arrivals

\* How the step ends when a buffer at offset "at" with a frame of host src came
\* to a layer that takes n bytes away at most.
Ended(at, n, src) ==
  /\ pc' \in {"ping", "poll", "null"}
  /\ \/ rxbuf' = rxbuf /\ pc' = "null"
     \/ rxbuf'.data \in Nat /\ rxbuf'.data <= at + n /\ rxbuf'.len \in Nat
  /\ out'.kind \in {"reply", "echo", "protocol"} => out'.to = src

LEMMA LoopStarts == \A i : LoopStart(i) \in {"ping", "poll"}
BY DEF LoopStart

LEMMA IcmpInEnds ==
  ASSUME NEW S, NEW b \in Bufs(S), NEW f, icmp_in(b, f)
  PROVE  Ended(b.data, 0, b.payload)
<1>1. CASE f.kind = "echo"
  <2>1. Leave(b, Send("reply", b.payload), FALSE)
    BY <1>1 DEF icmp_in
  <2> QED BY <2>1, LoopStarts DEF Leave, Send, Ended, Bufs
<1>2. CASE f.kind = "answer" /\ ~MapHas(map_ping_req, f.seq, Stamp)
  <2>1. pc' = "null" /\ out' = Nothing /\ rxbuf' = rxbuf
    BY <1>2 DEF icmp_in
  <2> QED BY <2>1 DEF Ended, Nothing
<1>3. CASE f.kind = "answer" /\ MapHas(map_ping_req, f.seq, Stamp)
  <2>1. Leave(b, Nothing, FALSE)
    BY <1>3 DEF icmp_in
  <2> QED BY <2>1, LoopStarts DEF Leave, Nothing, Ended, Bufs
<1>4. CASE f.kind \notin {"echo", "answer"}
  <2>1. Drop(b)
    BY <1>4 DEF icmp_in
  <2> QED BY <2>1, LoopStarts DEF Drop, Leave, Nothing, Ended, Bufs
<1> QED BY <1>1, <1>2, <1>3, <1>4

\* The pseudo header leaves the buffer as it was.
LEMMA PseudoHeaderRoundTrip ==
  ASSUME NEW S, NEW b \in Bufs(S), PseudoLen <= b.data, NEW h
  PROVE  PseudoHeaderOff(PseudoHeaderOn(b, h), b.payload) = b
<1> DEFINE n == PseudoLen
           over == IF h = IpLen THEN SelfIp ELSE b.payload
           on == [len |-> b.len + n, data |-> b.data - n, payload |-> over]
<1>1. n \in Nat
  BY LengthsAssumption
<1>2. PseudoHeaderOn(b, h) = on
  BY <1>1 DEF PseudoHeaderOn, buf_add_header, Bufs
<1>3. buf_remove_header(on, n) = [len |-> b.len, data |-> b.data, payload |-> over]
  BY <1>1 DEF buf_remove_header, Bufs
<1>4. PseudoHeaderOff(on, b.payload) = [len |-> b.len, data |-> b.data, payload |-> b.payload]
  BY <1>3 DEF PseudoHeaderOff
<1> QED BY <1>2, <1>4 DEF Bufs

LEMMA UdpInEnds ==
  ASSUME NEW S, NEW b \in Bufs(S), PseudoLen <= b.data, NEW f, udp_in(b, f)
  PROVE  Ended(b.data, UdpLen, b.payload)
<1> UdpLen \in Nat /\ IpLen \in Nat
  BY LengthsAssumption
<1>1. PseudoHeaderOff(PseudoHeaderOn(b, f.hlen), b.payload) = b
  BY PseudoHeaderRoundTrip
<1>2. CASE Sum(b, f) # f.check
  <2>1. Drop(b)
    BY <1>1, <1>2 DEF udp_in
  <2> QED BY <2>1, LoopStarts DEF Drop, Leave, Nothing, Ended, Bufs
<1>3. CASE Sum(b, f) = f.check /\ ~MapHas(udp_table, f.port, Stamp)
  <2> DEFINE q == buf_add_header(b, IpLen)
  <2>1. Leave(q, [kind |-> "port", to |-> SelfIp, whole |-> q.data = rxbuf.data + EthLen], FALSE)
    BY <1>1, <1>3 DEF udp_in, icmp_unreachable
  <2>2. q.data \in Nat /\ q.data <= b.data /\ q.len \in Nat
    BY DEF Bufs, buf_add_header
  <2> HIDE DEF q
  <2> QED BY <2>1, <2>2, LoopStarts DEF Leave, Send, Ended, Bufs
<1>4. CASE Sum(b, f) = f.check /\ MapHas(udp_table, f.port, Stamp)
  <2> DEFINE q == buf_remove_header(b, UdpLen)
  <2>1. Leave(q, udp_handler(b.payload, f), TRUE)
    BY <1>1, <1>4 DEF udp_in
  <2>3. udp_handler(b.payload, f).to = b.payload
    BY DEF udp_handler, udp_out
  <2>2. q.data \in Nat /\ q.data <= b.data + UdpLen /\ q.len \in Nat
    BY DEF Bufs, buf_remove_header
  <2> HIDE DEF q
  <2> QED BY <2>1, <2>2, <2>3, LoopStarts DEF Leave, Ended, Bufs
<1> QED BY <1>2, <1>3, <1>4

\* Whatever length the IP header states, at most that much is taken away.
LEMMA HeaderTakenAway ==
  ASSUME NEW S, NEW b \in Bufs(S), EthLen <= b.data, NEW h \in 0..HdrLenMax
  PROVE  LET up == buf_remove_header(b, h)
         IN  /\ up \in Bufs(S) /\ up.data <= b.data + HdrLenMax /\ up.payload = b.payload
             /\ PseudoLen <= up.data
BY LengthsAssumption DEF Bufs, buf_remove_header

LEMMA IpInEnds ==
  ASSUME NEW S, NEW b \in Bufs(S), EthLen <= b.data, NEW f, Stated(f), ip_in(b, f)
  PROVE  Ended(b.data, HdrLenMax + UdpLen, b.payload)
<1> DEFINE up == buf_remove_header(b, f.hlen)
<1> EthLen \in Nat /\ UdpLen \in Nat /\ HdrLenMax \in Nat /\ PseudoLen \in Nat
  BY LengthsAssumption
<1>1. f.kind # "noise" =>
        /\ up \in Bufs(S) /\ up.data <= b.data + HdrLenMax /\ up.payload = b.payload
        /\ PseudoLen <= up.data
  BY HeaderTakenAway DEF Stated
<1>2. CASE f.kind = "noise"
  <2>1. Drop(b)
    BY <1>2 DEF ip_in
  <2> QED BY <2>1, LoopStarts DEF Drop, Leave, Nothing, Ended, Bufs
<1>3. CASE f.kind # "noise" /\ net_in(Protocol(f)) = "none"
  <2>1. icmp_unreachable(up, "protocol", buf_copy(b), up.payload)
    BY <1>3 DEF ip_in
  <2> HIDE DEF up
  <2> QED BY <1>1, <1>3, <2>1, LoopStarts DEF icmp_unreachable, Leave, Ended, Bufs
<1>4. CASE f.kind # "noise" /\ icmp_in(up, f)
  <2>1. Ended(up.data, 0, up.payload)
    BY <1>1, <1>4, IcmpInEnds
  <2> HIDE DEF up
  <2> QED BY <1>1, <1>4, <2>1 DEF Ended, Bufs
<1>5. CASE f.kind # "noise" /\ udp_in(up, f)
  <2>1. Ended(up.data, UdpLen, up.payload)
    BY <1>1, <1>5, UdpInEnds
  <2> HIDE DEF up
  <2> QED BY <1>1, <1>5, <2>1 DEF Ended, Bufs
<1> QED BY <1>2, <1>3, <1>4, <1>5 DEF ip_in

LEMMA EthernetInEnds ==
  ASSUME NEW S, NEW b \in Bufs(S), EthLen <= b.len, NEW f, Stated(f), ethernet_in(b, f)
  PROVE  Ended(b.data, Headers, b.payload)
<1> DEFINE up == buf_remove_header(b, EthLen)
<1> EthLen \in Nat /\ UdpLen \in Nat /\ HdrLenMax \in Nat
  BY LengthsAssumption
<1>1. /\ up \in Bufs(S) /\ up.data = b.data + EthLen /\ up.payload = b.payload
      /\ EthLen <= up.data
  BY DEF Bufs, buf_remove_header
<1>2. CASE ip_in(up, f)
  <2>1. Ended(up.data, HdrLenMax + UdpLen, up.payload)
    BY <1>1, <1>2, IpInEnds
  <2> HIDE DEF up
  <2> QED BY <1>1, <2>1 DEF Ended, Bufs, Headers
<1>3. CASE Drop(up)
  <2> HIDE DEF up
  <2> QED BY <1>1, <1>3, LoopStarts DEF Drop, Leave, Nothing, Ended, Bufs, Headers
<1> QED BY <1>2, <1>3 DEF ethernet_in

-----------------------------------------------------------------------------
(* The invariant *)

\* How far the buffer may have moved after n frames.
Moved(n) == Origin - FrameMax + n * Headers

Inv ==
  /\ pc \in {"open", "init", "failed", "ping", "poll", "null", "overrun"}
  /\ polled \in Nat
  /\ pc \in {"open", "init"} =>
       polled = 0 /\ rxbuf = [len |-> 0, data |-> 0, payload |-> SelfIp]
  /\ pc \in {"ping", "poll", "null"} => rxbuf.data \in Nat /\ rxbuf.data <= Moved(polled)
  /\ RxbufLasts
  /\ AnswersGoBack

LEMMA MovedMore ==
  ASSUME NEW n \in Nat
  PROVE  /\ Headers \in Nat /\ n * Headers \in Nat
         /\ Moved(n) \in Nat /\ Moved(n + 1) = Moved(n) + Headers
<1>1. Headers \in Nat /\ FrameMax \in Nat /\ FrameMax <= Origin
  BY LengthsAssumption DEF Headers
<1>2. n * Headers \in Nat /\ (n + 1) * Headers = n * Headers + Headers
  BY <1>1
<1> QED BY <1>1, <1>2, OriginInside DEF Moved

LEMMA Initially == Init => Inv
BY DEF Init, Inv, RxbufLasts, AnswersGoBack

LEMMA NetInitKeeps == Inv /\ net_init => Inv'
<1> SUFFICES ASSUME Inv, net_init PROVE Inv'
  OBVIOUS
<1>1. /\ polled = 0 /\ rxbuf = [len |-> 0, data |-> 0, payload |-> SelfIp]
      /\ UNCHANGED <<polled, last, out>>
      /\ rxbuf' = buf_init(rxbuf, FrameMax)
  BY DEF net_init, Inv, shown
<1>2. pc' \in {"ping", "poll"}
  BY LoopStarts DEF net_init
<1>3. rxbuf'.data \in Nat /\ rxbuf'.data <= Moved(0)
  <2>1. Moved(0) = Origin - FrameMax
    BY MovedMore, LengthsAssumption, OriginInside DEF Moved, Headers
  <2> QED BY <1>1, <2>1, LengthsAssumption, OriginInside DEF buf_init
<1>4. AnswersGoBack'
  BY <1>1 DEF Inv, AnswersGoBack
<1> QED BY <1>1, <1>2, <1>3, <1>4 DEF Inv, RxbufLasts

LEMMA RecvKeeps ==
  ASSUME Inv, pc = "poll", NEW f \in Arrivals, driver_recv(f)
  PROVE  Inv'
<1> DEFINE b == [len |-> Length(f), data |-> rxbuf.data, payload |-> f.src]
<1>1. /\ polled' = polled + 1 /\ last' = f /\ polled \in Nat /\ polled' \in Nat
      /\ rxbuf.data \in Nat /\ rxbuf.data <= Moved(polled)
      /\ Moved(polled + 1) = Moved(polled) + Headers
      /\ Moved(polled) \in Nat /\ Headers \in Nat
  BY MovedMore DEF driver_recv, Inv
<1>2. /\ EthLen \in Nat /\ FrameMax \in Nat
      /\ Length(f) \in Nat /\ EthLen <= Length(f) /\ Length(f) <= FrameMax
  BY LengthsAssumption DEF Length
<1>3. CASE InArray(b)
  <2>1. ethernet_in(b, f)
    BY <1>3 DEF driver_recv
  <2>2. b \in Bufs({f.src}) /\ EthLen <= b.len /\ b.data = rxbuf.data /\ b.payload = f.src
    BY <1>1, <1>2 DEF Bufs
  <2>3. Ended(rxbuf.data, Headers, f.src)
    <3> HIDE DEF b
    <3>1. Ended(b.data, Headers, b.payload)
      BY <2>1, <2>2, ArrivalsStated, EthernetInEnds
    <3> QED BY <2>2, <3>1
  <2>4. pc' \in {"ping", "poll", "null"} /\ rxbuf'.data \in Nat /\ rxbuf'.data <= Moved(polled')
    BY <1>1, <2>3 DEF Ended
  <2>5. AnswersGoBack'
    BY <1>1, <2>3 DEF Ended, AnswersGoBack
  <2> QED BY <1>1, <2>4, <2>5 DEF Inv, RxbufLasts
<1>4. CASE ~InArray(b)
  <2>1. pc' = "overrun" /\ out' = Nothing
    BY <1>4 DEF driver_recv
  <2>2. rxbuf.data + Length(f) > BufMaxLen
    BY <1>1, <1>2, <1>4, BufAssumption DEF InArray
  <2>3. polled * Headers > BufMaxLen - Origin
    BY <1>1, <1>2, <2>2, MovedMore, OriginInside, BufAssumption DEF Moved
  <2>4. (polled' - 1) * (EthLen + HdrLenMax + UdpLen) > BufMaxLen - Origin
    <3>1. polled' - 1 = polled
      BY <1>1
    <3> QED BY <2>3, <3>1 DEF Headers
  <2> QED BY <1>1, <2>1, <2>4 DEF Inv, RxbufLasts, AnswersGoBack, Nothing
<1> QED BY <1>3, <1>4

LEMMA PollKeeps == Inv /\ net_poll => Inv'
<1> SUFFICES ASSUME Inv, net_poll PROVE Inv'
  OBVIOUS
<1>1. pc = "poll"
  BY DEF net_poll
<1>2. CASE \E f \in Arrivals : driver_recv(f)
  BY <1>1, <1>2, RecvKeeps
<1>3. CASE UNCHANGED <<rxbuf, polled>> /\ pc' = LoopStart(target) /\ last' = Nothing
  <2>1. pc' \in {"ping", "poll"}
    BY <1>3, LoopStarts
  <2> QED BY <1>1, <1>3, <2>1 DEF Inv, RxbufLasts, AnswersGoBack
<1> QED BY <1>2, <1>3 DEF net_poll

\* What happens without a frame leaves the buffer alone.
LEMMA OthersKeep ==
  Inv /\ (driver_open \/ ping_req \/ Tick \/ \E port \in Ports : udp_open(port) \/ udp_close(port))
    => Inv'
<1> SUFFICES ASSUME Inv, driver_open \/ ping_req \/ Tick
                         \/ \E port \in Ports : udp_open(port) \/ udp_close(port)
             PROVE  Inv'
  OBVIOUS
<1>1. CASE driver_open
  <2>1. pc = "open" /\ pc' \in {"failed", "init"} /\ UNCHANGED <<rxbuf, polled, last, out>>
    BY <1>1 DEF driver_open, shown
  <2> QED BY <2>1 DEF Inv, RxbufLasts, AnswersGoBack
<1>2. CASE ping_req
  <2>1. pc = "ping" /\ UNCHANGED <<rxbuf, polled>> /\ last' = Nothing
    BY <1>2 DEF ping_req
  <2>2. pc' \in {"ping", "poll", "null"}
    BY <1>2, LoopStarts DEF ping_req
  <2> QED BY <2>1, <2>2 DEF Inv, RxbufLasts, AnswersGoBack
<1>3. CASE Tick
  <2>1. pc' = pc /\ UNCHANGED <<rxbuf, polled>> /\ last' = Nothing
    BY <1>3 DEF Tick
  <2> QED BY <2>1 DEF Inv, RxbufLasts, AnswersGoBack
<1>4. CASE \E port \in Ports : udp_open(port) \/ udp_close(port)
  <2>1. pc' = pc /\ UNCHANGED <<rxbuf, polled>> /\ last' = Nothing
    BY <1>4 DEF udp_open, udp_close
  <2> QED BY <2>1 DEF Inv, RxbufLasts, AnswersGoBack
<1> QED BY <1>1, <1>2, <1>3, <1>4

\* The bound on the buffer's movement holds in every behaviour.
THEOREM Invariance == Spec => []Inv
<1>1. Inv /\ [Next]_vars => Inv'
  <2> SUFFICES ASSUME Inv, [Next]_vars PROVE Inv'
    OBVIOUS
  <2>1. CASE UNCHANGED vars
    <3>1. UNCHANGED <<pc, polled, rxbuf, last, out>>
      BY <2>1 DEF vars, shown
    <3> QED BY <3>1 DEF Inv, RxbufLasts, AnswersGoBack
  <2> QED BY <2>1, NetInitKeeps, PollKeeps, OthersKeep DEF Next
<1> QED BY <1>1, Initially, PTL DEF Spec

\* driver_recv writes past rxbuf only after as many frames as the half of the array
\* takes of the longest headers: for every size of array and every length an IP
\* header states for itself, which ip_in takes away unseen.
THEOREM BufferLasts == Spec => []RxbufLasts
<1>1. Inv => RxbufLasts BY DEF Inv
<1> QED BY <1>1, Invariance, PTL

\* Echo replies, echoed data and reports of an unknown protocol go to the source
\* of the frame they answer, which is read again from a buffer written over and
\* restored (transport_checksum) meanwhile.
THEOREM AnswersReturn == Spec => []AnswersGoBack
<1>1. Inv => AnswersGoBack BY DEF Inv
<1> QED BY <1>1, Invariance, PTL

-----------------------------------------------------------------------------
(* utils.c: sums of words *)

\* s sums up the first n words, or fewer of them.
PartSums(words, n, s) ==
  s = [i \in 0..n |-> IF i = 0 THEN 0 ELSE s[i - 1] + words[i]]

LEMMA TotalOfFive ==
  ASSUME NEW a \in Nat, NEW b \in Nat, NEW c \in Nat, NEW d \in Nat, NEW e \in Nat
  PROVE  Total(<<a, b, c, d, e>>) = a + b + c + d + e
<1> DEFINE w == <<a, b, c, d, e>>
           s == [i \in 0..5 |-> IF i = 0 THEN 0 ELSE IF i = 1 THEN a ELSE IF i = 2 THEN a + b
                                ELSE IF i = 3 THEN a + b + c ELSE IF i = 4 THEN a + b + c + d
                                ELSE a + b + c + d + e]
<1>1. Len(w) = 5 /\ w[1] = a /\ w[2] = b /\ w[3] = c /\ w[4] = d /\ w[5] = e
  OBVIOUS
<1>2. PartSums(w, 5, s)
  <2>1. \A i \in 0..5 : s[i] = IF i = 0 THEN 0 ELSE s[i - 1] + w[i]
    BY <1>1
  <2>2. s = [i \in 0..5 |-> s[i]]
    OBVIOUS
  <2> HIDE DEF s, w
  <2> QED BY <2>1, <2>2 DEF PartSums
<1> HIDE DEF w, s
<1>3. Total(w) = (CHOOSE t : PartSums(w, 5, t))[5]
  BY <1>1 DEF Total, PartSums
<1>4. PICK t : PartSums(w, 5, t) /\ Total(w) = t[5]
  BY <1>2, <1>3
<1>5. \A i \in 0..5 : t[i] = IF i = 0 THEN 0 ELSE t[i - 1] + w[i]
  BY <1>4 DEF PartSums
<1>6. t[0] = 0 /\ t[1] = a /\ t[2] = a + b /\ t[3] = a + b + c
  BY <1>1, <1>5
<1>7. t[4] = a + b + c + d
  BY <1>1, <1>5, <1>6
<1>8. t[5] = a + b + c + d + e
  BY <1>1, <1>5, <1>7
<1> QED BY <1>4, <1>8 DEF w

LEMMA TotalOfSix ==
  ASSUME NEW w, Len(w) = 6, \A i \in 1..6 : w[i] \in Nat
  PROVE  Total(w) = w[1] + w[2] + w[3] + w[4] + w[5] + w[6]
<1>1. PICK a \in Nat, b \in Nat, c \in Nat, d \in Nat, e \in Nat, f \in Nat :
        w[1] = a /\ w[2] = b /\ w[3] = c /\ w[4] = d /\ w[5] = e /\ w[6] = f
  <2>1. w[1] \in Nat /\ w[2] \in Nat /\ w[3] \in Nat /\ w[4] \in Nat /\ w[5] \in Nat /\ w[6] \in Nat
    OBVIOUS
  <2> QED BY <2>1, Zenon
<1> DEFINE s == [i \in 0..6 |-> IF i = 0 THEN 0 ELSE IF i = 1 THEN a ELSE IF i = 2 THEN a + b
                                ELSE IF i = 3 THEN a + b + c ELSE IF i = 4 THEN a + b + c + d
                                ELSE IF i = 5 THEN a + b + c + d + e ELSE a + b + c + d + e + f]
<1>2. PartSums(w, 6, s)
  <2>1. \A i \in 0..6 : s[i] = IF i = 0 THEN 0 ELSE s[i - 1] + w[i]
    BY <1>1
  <2>2. s = [i \in 0..6 |-> s[i]]
    OBVIOUS
  <2> HIDE DEF s
  <2> QED BY <2>1, <2>2 DEF PartSums
<1> HIDE DEF s
<1>3. Total(w) = (CHOOSE t : PartSums(w, 6, t))[6]
  BY DEF Total, PartSums
<1>4. PICK t : PartSums(w, 6, t) /\ Total(w) = t[6]
  BY <1>2, <1>3
<1>5. \A i \in 0..6 : t[i] = IF i = 0 THEN 0 ELSE t[i - 1] + w[i]
  BY <1>4 DEF PartSums
<1>6. t[0] = 0 /\ t[1] = a /\ t[2] = a + b /\ t[3] = a + b + c
  BY <1>1, <1>5
<1>7. t[4] = a + b + c + d
  BY <1>1, <1>5, <1>6
<1>8. t[5] = a + b + c + d + e
  BY <1>1, <1>5, <1>7
<1>9. t[6] = a + b + c + d + e + f
  BY <1>1, <1>5, <1>8
<1> QED BY <1>1, <1>4, <1>9

-----------------------------------------------------------------------------
(* utils.c: the carries *)

\* e is the one's complement sum of s: the one of 0..(WordMod - 1) that differs
\* from s by whole carries, and zero for no other sum than zero.
Folded(s, e) ==
  /\ e \in 0..(WordMod - 1) /\ (e = 0 <=> s = 0)
  /\ \E k \in Nat : s = e + k * (WordMod - 1)

\* One round of the loop makes the sum smaller, by whole carries.
LEMMA CarryOnce ==
  ASSUME NEW s \in Nat, s >= WordMod
  PROVE  /\ (s % WordMod) + (s \div WordMod) \in 1..(s - 1)
         /\ \E q \in Nat : s = (s % WordMod) + (s \div WordMod) + q * (WordMod - 1)
<1>1. WordMod \in Nat /\ WordMod > 1
  BY WordAssumption
<1>2. PICK q : q = s \div WordMod
  OBVIOUS
<1>3. PICK r : r = s % WordMod
  OBVIOUS
<1>4. q \in Nat /\ r \in 0..(WordMod - 1) /\ s = WordMod * q + r
  BY <1>1, <1>2, <1>3
<1>5. q # 0
  <2>1. q = 0 => s = r
    BY <1>1, <1>4
  <2> QED BY ONLY <2>1, <1>4, <1>1, s \in Nat, s >= WordMod
<1>6. PICK m \in Nat : m = WordMod - 1 /\ m >= 1
  BY <1>1
<1>7. PICK p : p = q * m
  OBVIOUS
<1>8. WordMod * q = q + p /\ p \in Nat /\ p >= q
  <2>1. WordMod = m + 1
    BY ONLY <1>1, <1>6
  <2>2. (m + 1) * q = q + q * m
    BY ONLY <1>6, <1>4
  <2>3. q * m \in Nat /\ q * m >= q
    BY ONLY <1>6, <1>4
  <2> QED BY <2>1, <2>2, <2>3, <1>7
<1>9. s = r + q + p /\ r + q \in 1..(s - 1)
  BY ONLY <1>4, <1>5, <1>8, s \in Nat
<1> QED BY <1>2, <1>3, <1>4, <1>6, <1>7, <1>9

\* f does the loop for every sum up to n.
IsFold(n, f) ==
  f = [s \in 0..n |-> IF s < WordMod THEN s ELSE f[(s % WordMod) + (s \div WordMod)]]

LEMMA FoldsExist == \A n \in Nat : \E f : IsFold(n, f)
<1> DEFINE bad == {n \in Nat : ~ \E f : IsFold(n, f)}
<1>1. SUFFICES ASSUME bad # {} PROVE FALSE
  OBVIOUS
<1>2. PICK n \in bad : \A m \in bad : n <= m
  <2>1. bad \subseteq Nat
    OBVIOUS
  <2> HIDE DEF bad
  <2> QED BY <1>1, <2>1, LeastExists
<1>w. WordMod \in Nat /\ WordMod > 1
  BY WordAssumption
<1>3. n \in Nat /\ n # 0
  <2>1. IsFold(0, [s \in {0} |-> 0])
    <3>1. 0..0 = {0} /\ 0 < WordMod
      BY <1>w
    <3> QED BY <3>1 DEF IsFold
  <2> QED BY <2>1
<1>4. PICK g : IsFold(n - 1, g)
  BY <1>2, <1>3
<1>5. \A s \in 0..(n - 1) :
        g[s] = IF s < WordMod THEN s ELSE g[(s % WordMod) + (s \div WordMod)]
  BY <1>4 DEF IsFold
<1> DEFINE f == [s \in 0..n |-> IF s < n THEN g[s] ELSE IF s < WordMod THEN s
                                ELSE g[(s % WordMod) + (s \div WordMod)]]
<1>6. \A s \in 0..n : s >= WordMod => (s % WordMod) + (s \div WordMod) \in 0..(n - 1)
  <2> SUFFICES ASSUME NEW s \in Nat, s <= n, s >= WordMod
               PROVE  (s % WordMod) + (s \div WordMod) \in 0..(n - 1)
    BY <1>3
  <2>1. PICK t : t = (s % WordMod) + (s \div WordMod)
    OBVIOUS
  <2>2. t \in 1..(s - 1)
    BY <2>1, CarryOnce
  <2>3. t \in 0..(n - 1)
    BY ONLY <2>2, s \in Nat, s <= n, <1>3
  <2> QED BY <2>1, <2>3
<1>7. \A s \in 0..n : f[s] = IF s < WordMod THEN s ELSE f[(s % WordMod) + (s \div WordMod)]
  <2> SUFFICES ASSUME NEW s \in 0..n
               PROVE  f[s] = IF s < WordMod THEN s ELSE f[(s % WordMod) + (s \div WordMod)]
    OBVIOUS
  <2>1. CASE s < WordMod
    BY <2>1, <1>3, <1>5, <1>w
  <2>2. CASE s >= WordMod
    <3>1. PICK t \in 0..(n - 1) : t = (s % WordMod) + (s \div WordMod)
      BY <2>2, <1>6
    <3>2. f[t] = g[t]
      BY <3>1, <1>3
    <3>3. f[s] = g[t]
      BY <2>2, <3>1, <1>3, <1>5, <1>w
    <3> QED BY <2>2, <3>1, <3>2, <3>3, <1>3, <1>w
  <2> QED BY <2>1, <2>2, <1>3, <1>w
<1>8. f = [s \in 0..n |-> f[s]]
  OBVIOUS
<1> HIDE DEF f
<1>9. IsFold(n, f)
  BY <1>7, <1>8 DEF IsFold
<1> QED BY <1>2, <1>9

\* The loop of the checksum ends with the one's complement sum.
LEMMA CarriesFold ==
  ASSUME NEW s \in Nat
  PROVE  Folded(s, EndAroundCarry(s))
<1>w. WordMod \in Nat /\ WordMod > 1
  BY WordAssumption
<1>1. EndAroundCarry(s) = (CHOOSE f : IsFold(s, f))[s]
  BY DEF EndAroundCarry, IsFold
<1>2. PICK f : IsFold(s, f) /\ EndAroundCarry(s) = f[s]
  BY <1>1, FoldsExist
<1>3. \A t \in 0..s : f[t] = IF t < WordMod THEN t ELSE f[(t % WordMod) + (t \div WordMod)]
  BY <1>2 DEF IsFold
<1> DEFINE bad == {t \in 0..s : ~ Folded(t, f[t])}
<1>4. bad = {}
  <2> SUFFICES ASSUME bad # {} PROVE FALSE
    OBVIOUS
  <2>1. PICK t \in bad : \A u \in bad : t <= u
    <3>1. bad \subseteq Nat
      OBVIOUS
    <3> HIDE DEF bad
    <3> QED BY <3>1, LeastExists
  <2>2. CASE t < WordMod
    <3>1. f[t] = t
      BY <2>2, <1>3
    <3>2. t = t + 0 * (WordMod - 1) /\ t \in 0..(WordMod - 1)
      BY <2>2, <1>w
    <3>3. Folded(t, t)
      BY <3>2 DEF Folded
    <3> QED BY <2>1, <3>1, <3>3
  <2>3. CASE t >= WordMod
    <3>1. PICK u, q : /\ u = (t % WordMod) + (t \div WordMod)
                      /\ u \in 1..(t - 1) /\ q \in Nat /\ t = u + q * (WordMod - 1)
      BY <2>1, <2>3, CarryOnce
    <3>2. f[t] = f[u]
      <4>1. ~ (t < WordMod)
        BY <2>3, <1>w
      <4> QED BY <4>1, <3>1, <1>3
    <3>3. Folded(u, f[u])
      BY <2>1, <3>1
    <3>4. PICK k \in Nat : u = f[u] + k * (WordMod - 1)
      BY <3>3 DEF Folded
    <3>5. f[u] \in 0..(WordMod - 1) /\ f[u] # 0
      BY <3>1, <3>3 DEF Folded
    <3>6. PICK e \in Nat : e = f[u]
      BY <3>5, <1>w
    <3>7. t = e + (k + q) * (WordMod - 1)
      <4>1. PICK m \in Nat : m = WordMod - 1
        BY <1>w
      <4>2. (k + q) * m = k * m + q * m
        <5>1. q \in Nat
          BY <3>1
        <5> QED BY ONLY k \in Nat, m \in Nat, <5>1
      <4>3. PICK x \in Nat, y \in Nat : x = k * m /\ y = q * m
        BY <3>1, <4>1
      <4>4. t = u + y /\ u = e + x
        BY <3>1, <3>4, <3>6, <4>1, <4>3
      <4>5. (k + q) * m = x + y
        BY <4>2, <4>3
      <4> QED BY <4>1, <4>4, <4>5
    <3>8. k + q \in Nat /\ t # 0
      BY <3>1
    <3>9. Folded(t, e)
      BY ONLY <3>5, <3>6, <3>7, <3>8 DEF Folded
    <3> QED BY <2>1, <3>2, <3>6, <3>9
  <2> QED BY <2>1, <2>2, <2>3, <1>w
<1> QED BY <1>2, <1>4

\* There is one such sum.
LEMMA FoldedOnce ==
  ASSUME NEW s, NEW d, NEW e, Folded(s, d), Folded(s, e)
  PROVE  d = e
<1>1. PICK m \in Nat : m = WordMod - 1 /\ m >= 1
  BY WordAssumption
<1>2. PICK j \in Nat, k \in Nat : s = d + j * m /\ s = e + k * m
  BY <1>1 DEF Folded
<1>3. d \in 0..m /\ e \in 0..m /\ (d = 0 <=> e = 0)
  BY <1>1 DEF Folded
<1>4. CASE j = k
  <2>1. PICK x \in Nat : x = j * m
    BY <1>1
  <2> QED BY <1>2, <1>3, <1>4, <2>1
<1>5. CASE j # k
  <2>1. CASE j > k
    <3>1. PICK i \in Nat : j = k + 1 + i
      BY <2>1
    <3>2. j * m = k * m + m + i * m
      BY <3>1, <1>1
    <3>3. PICK x \in Nat, y \in Nat : x = k * m /\ y = i * m
      BY <1>1
    <3>4. d + m + y = e
      BY <1>2, <1>3, <3>2, <3>3
    <3> QED BY <1>1, <1>3, <3>3, <3>4
  <2>2. CASE k > j
    <3>1. PICK i \in Nat : k = j + 1 + i
      BY <2>2
    <3>2. k * m = j * m + m + i * m
      BY <3>1, <1>1
    <3>3. PICK x \in Nat, y \in Nat : x = j * m /\ y = i * m
      BY <1>1
    <3>4. e + m + y = d
      BY <1>2, <1>3, <3>2, <3>3
    <3> QED BY <1>1, <1>3, <3>3, <3>4
  <2> QED BY <1>5, <2>1, <2>2
<1> QED BY <1>4, <1>5

\* A whole number of carries is a multiple of what a carry adds.
LEMMA Multiples ==
  ASSUME NEW m \in Nat, m >= 1, NEW j \in Nat, NEW x, x = j * m
  PROVE  x % m = 0
<1>1. PICK q, r : q = x \div m /\ r = x % m
  OBVIOUS
<1>2. x \in Nat
  OBVIOUS
<1>3. q \in Nat /\ r \in 0..(m - 1) /\ x = m * q + r
  BY <1>1, <1>2
<1>4. PICK y \in Nat : y = m * q
  BY <1>3
<1>5. CASE j > q
  <2>1. PICK i \in Nat : j = q + 1 + i
    BY <1>5, <1>3
  <2>2. j * m = m * q + m + i * m
    BY <2>1, <1>3
  <2>3. PICK z \in Nat : z = i * m
    BY <2>1
  <2> QED BY <1>3, <1>4, <2>2, <2>3
<1>6. CASE q > j
  <2>1. PICK i \in Nat : q = j + 1 + i
    BY <1>6, <1>3
  <2>2. m * q = j * m + m + i * m
    BY <2>1, <1>3
  <2>3. PICK z \in Nat : z = i * m
    BY <2>1
  <2> QED BY <1>2, <1>3, <1>4, <2>2, <2>3
<1>7. CASE q = j
  BY <1>7, <1>1, <1>3, <1>4
<1> QED BY <1>3, <1>5, <1>6, <1>7

\* Sums that differ in one word and fold to the same are of words that are the
\* same to the sum.
LEMMA SameFold ==
  ASSUME NEW s \in Nat, NEW t \in Nat, NEW e, Folded(s, e), Folded(t, e),
         NEW x \in 0..(WordMod - 1), NEW y \in 0..(WordMod - 1), s + y = t + x
  PROVE  SameToTheSum(x, y)
<1>1. PICK m \in Nat : m = WordMod - 1 /\ m >= 1
  BY WordAssumption
<1>2. PICK j \in Nat, k \in Nat : s = e + j * m /\ t = e + k * m
  BY <1>1 DEF Folded
<1>3. PICK p \in Nat, q \in Nat : p = j * m /\ q = k * m
  BY <1>1
<1>4. e \in Nat /\ x \in 0..m /\ y \in 0..m
  BY <1>1 DEF Folded
<1>5. p + y = q + x
  BY ONLY <1>2, <1>3, <1>4, s + y = t + x
<1>6. CASE j = k
  BY <1>3, <1>4, <1>5, <1>6 DEF SameToTheSum
<1>7. CASE j > k
  <2>1. PICK i \in Nat : j = k + 1 + i
    BY <1>7
  <2>2. j * m = k * m + m + i * m
    BY <2>1, <1>1
  <2>3. PICK z \in Nat : z = i * m
    BY <1>1
  <2>4. x = m /\ y = 0
    BY ONLY <2>2, <2>3, <1>3, <1>4, <1>5, m \in Nat
  <2> QED BY <2>4, <1>1 DEF SameToTheSum
<1>8. CASE k > j
  <2>1. PICK i \in Nat : k = j + 1 + i
    BY <1>8
  <2>2. k * m = j * m + m + i * m
    BY <2>1, <1>1
  <2>3. PICK z \in Nat : z = i * m
    BY <1>1
  <2>4. y = m /\ x = 0
    BY ONLY <2>2, <2>3, <1>3, <1>4, <1>5, m \in Nat
  <2> QED BY <2>4, <1>1 DEF SameToTheSum
<1> QED BY <1>6, <1>7, <1>8

\* What checksum16 and a sender that follows RFC 768 make of the same words.
LEMMA Checksums ==
  ASSUME NEW words, NEW s \in Nat, s = Total(words)
  PROVE  \E e : /\ Folded(s, e)
                /\ checksum16(words) = WordMod - 1 - e
                /\ PeerChecksum(words) = IF e = WordMod - 1 THEN WordMod - 1 ELSE WordMod - 1 - e
<1>1. PICK m \in Nat : m = WordMod - 1 /\ m >= 1
  BY WordAssumption
<1>2. PICK e : e = EndAroundCarry(s)
  OBVIOUS
<1>3. Folded(s, e) /\ checksum16(words) = WordMod - 1 - e
  BY <1>2, CarriesFold DEF checksum16
<1>4. PICK d : d = IF s = 0 THEN 0 ELSE ((s - 1) % m) + 1
  OBVIOUS
<1>5. PeerChecksum(words) = IF d = m THEN m ELSE m - d
  BY <1>1, <1>4 DEF PeerChecksum
<1>6. Folded(s, d)
  <2>1. CASE s = 0
    <3>1. d = 0 /\ 0 = 0 + 0 * m
      BY <1>1, <1>4, <2>1
    <3> QED BY <1>1, <2>1, <3>1 DEF Folded
  <2>2. CASE s # 0
    <3>1. PICK q, r : q = (s - 1) \div m /\ r = (s - 1) % m
      OBVIOUS
    <3>a. PICK n \in Nat : n = s - 1
      BY <2>2
    <3>2. q \in Nat /\ r \in 0..(m - 1) /\ s - 1 = m * q + r /\ d = r + 1
      <4>1. q = n \div m /\ r = n % m
        BY <3>1, <3>a
      <4>2. q \in Nat /\ r \in 0..(m - 1) /\ n = m * q + r
        <5>1. m > 0
          BY <1>1
        <5> QED BY ONLY <4>1, <5>1, m \in Nat, n \in Nat
      <4>3. d = r + 1
        BY <1>4, <2>2, <3>1
      <4> QED BY <4>2, <4>3, <3>a
    <3>3. m * q = q * m /\ q * m \in Nat
      BY <1>1, <3>2
    <3>4. PICK y \in Nat : y = m * q /\ y = q * m
      BY <3>3
    <3>5. d \in 0..m /\ d # 0 /\ s = d + q * m
      BY ONLY <3>2, <3>4, <1>1, s \in Nat
    <3> QED BY <1>1, <2>2, <3>2, <3>5 DEF Folded
  <2> QED BY <2>1, <2>2
<1>7. d = e
  BY <1>3, <1>6, FoldedOnce
<1> QED BY <1>1, <1>3, <1>5, <1>7

\* A datagram of words h of a pseudo header, a port and data arrives with check
\* k, accepted by the sum, and at most one of the three words was damaged.
OneDamaged(a, b, c, p, d, x, y, k) ==
  /\ {a, b, c, p, d, x, y, k} \subseteq Words
  /\ checksum16(<<a, b, c, x, y>>) = k
  /\ \/ x = p /\ y = d
     \/ k = PeerChecksum(<<a, b, c, p, d>>) /\ (x = p \/ y = d)

LEMMA OneDamageShows ==
  ASSUME NEW a, NEW b, NEW c, NEW p, NEW d, NEW x, NEW y, NEW k, OneDamaged(a, b, c, p, d, x, y, k)
  PROVE  /\ SameToTheSum(x, p) /\ SameToTheSum(y, d)
         /\ SameToTheSum(k, PeerChecksum(<<a, b, c, p, d>>))
<1>1. PICK m \in Nat : m = WordMod - 1 /\ m >= 1
  BY WordAssumption
<1>2. a \in 0..m /\ b \in 0..m /\ c \in 0..m /\ p \in 0..m /\ d \in 0..m /\ x \in 0..m /\ y \in 0..m /\ k \in 0..m
  BY <1>1 DEF OneDamaged, Words
<1>3. PICK v : v = <<a, b, c, p, d>>
  OBVIOUS
<1>4. PICK w : w = <<a, b, c, x, y>>
  OBVIOUS
<1>5. PICK s \in Nat : s = Total(v) /\ s = a + b + c + p + d
  <2>1. a \in Nat /\ b \in Nat /\ c \in Nat /\ p \in Nat /\ d \in Nat
    BY <1>1, <1>2
  <2>2. Total(<<a, b, c, p, d>>) = a + b + c + p + d
    BY ONLY <2>1, TotalOfFive
  <2>3. a + b + c + p + d \in Nat
    BY ONLY <2>1
  <2> QED BY <1>3, <2>2, <2>3
<1>6. PICK t \in Nat : t = Total(w) /\ t = a + b + c + x + y
  <2>1. a \in Nat /\ b \in Nat /\ c \in Nat /\ x \in Nat /\ y \in Nat
    BY <1>1, <1>2
  <2>2. Total(<<a, b, c, x, y>>) = a + b + c + x + y
    BY ONLY <2>1, TotalOfFive
  <2>3. a + b + c + x + y \in Nat
    BY ONLY <2>1
  <2> QED BY <1>4, <2>2, <2>3
<1>7. PICK e : Folded(s, e) /\ PeerChecksum(v) = IF e = m THEN m ELSE m - e
  BY <1>1, <1>5, Checksums
<1>8. PICK f : Folded(t, f) /\ checksum16(w) = m - f
  BY <1>1, <1>6, Checksums
<1>9. k = m - f
  BY <1>4, <1>8 DEF OneDamaged
<1>10. e \in 0..m /\ f \in 0..m /\ (e = 0 <=> s = 0) /\ (f = 0 <=> t = 0)
  BY <1>1, <1>7, <1>8 DEF Folded
<1>11. CASE x = p /\ y = d
  <2>1. s = t
    BY <1>5, <1>6, <1>11
  <2>2. e = f
    BY <2>1, <1>7, <1>8, FoldedOnce
  <2>3. SameToTheSum(k, PeerChecksum(v))
    BY <2>2, <1>1, <1>7, <1>9, <1>10 DEF SameToTheSum
  <2> QED BY <1>3, <1>11, <2>3 DEF SameToTheSum
<1>12. CASE k = PeerChecksum(v) /\ (x = p \/ y = d)
  <2>1. CASE e = m
    <3>1. f = 0 /\ t = 0
      BY <2>1, <1>1, <1>7, <1>9, <1>10, <1>12
    <3>2. PICK j \in Nat : s = m + j * m
      BY <2>1, <1>1, <1>7 DEF Folded
    <3>3. PICK z \in Nat : z = j * m
      BY <1>1
    <3>4. p + d >= m /\ x = 0 /\ y = 0
      BY ONLY <3>1, <3>2, <3>3, <1>2, <1>5, <1>6, m \in Nat
    <3>5. (p = m /\ d = 0) \/ (p = 0 /\ d = m)
      BY ONLY <3>4, <1>2, <1>12, m \in Nat
    <3> QED BY <1>1, <1>3, <1>12, <3>4, <3>5 DEF SameToTheSum
  <2>2. CASE e # m
    <3>1. e = f
      BY <2>2, <1>7, <1>9, <1>10, <1>12
    <3>2. Folded(t, e) /\ Folded(s, e)
      BY <3>1, <1>7, <1>8
    <3>3. CASE x = p
      <4>1. t + d = s + y
        BY <3>3, <1>2, <1>5, <1>6
      <4>2. SameToTheSum(y, d)
        BY <3>2, <4>1, <1>1, <1>2, SameFold
      <4> QED BY <3>3, <4>2, <1>3, <1>12 DEF SameToTheSum
    <3>4. CASE y = d
      <4>1. t + p = s + x
        BY <3>4, <1>2, <1>5, <1>6
      <4>2. SameToTheSum(x, p)
        BY <3>2, <4>1, <1>1, <1>2, SameFold
      <4> QED BY <3>4, <4>2, <1>3, <1>12 DEF SameToTheSum
    <3> QED BY <3>3, <3>4, <1>12
  <2> QED BY <2>1, <2>2
<1> QED BY <1>3, <1>11, <1>12 DEF OneDamaged

\* With the checksum in its place the words add up to a whole number of carries.
LEMMA SumsToZero ==
  ASSUME NEW a \in Words, NEW b \in Words, NEW c \in Words, NEW p \in Words,
         NEW d \in Words, NEW k, k = checksum16(<<a, b, c, p, d>>)
  PROVE  Total(<<a, b, c, p, d, k>>) % (WordMod - 1) = 0
<1>1. PICK m \in Nat : m = WordMod - 1 /\ m >= 1
  BY WordAssumption
<1>2. a \in Nat /\ b \in Nat /\ c \in Nat /\ p \in Nat /\ d \in Nat
  BY <1>1 DEF Words
<1>3. PICK s \in Nat : s = Total(<<a, b, c, p, d>>) /\ s = a + b + c + p + d
  BY <1>2, TotalOfFive
<1>4. PICK e : Folded(s, e) /\ k = m - e
  BY <1>1, <1>3, Checksums
<1>5. e \in 0..m
  BY <1>1, <1>4 DEF Folded
<1>6. PICK j \in Nat : s = e + j * m
  BY <1>1, <1>4 DEF Folded
<1>7. k \in Nat /\ Total(<<a, b, c, p, d, k>>) = s + k
  <2>1. k \in Nat
    BY <1>1, <1>4, <1>5
  <2>2. PICK w : w = <<a, b, c, p, d, k>>
    OBVIOUS
  <2>3. /\ Len(w) = 6 /\ \A i \in 1..6 : w[i] \in Nat
        /\ w[1] = a /\ w[2] = b /\ w[3] = c /\ w[4] = p /\ w[5] = d /\ w[6] = k
    BY <1>2, <2>1, <2>2
  <2>4. Total(w) = a + b + c + p + d + k
    BY <2>3, TotalOfSix
  <2> QED BY <1>3, <2>1, <2>2, <2>4
<1>8. s + k = (j + 1) * m
  <2>1. (j + 1) * m = j * m + m
    BY <1>1, <1>6
  <2>2. PICK y \in Nat : y = j * m
    BY <1>1, <1>6
  <2> QED BY ONLY <2>1, <2>2, <1>4, <1>5, <1>6, m \in Nat
<1>9. PICK i \in Nat : i = j + 1
  BY <1>6
<1>10. PICK x : x = s + k /\ x = i * m
  BY <1>8, <1>9
<1>11. x % m = 0
  BY <1>1, <1>9, <1>10, Multiples
<1> QED BY <1>1, <1>7, <1>10, <1>11

-----------------------------------------------------------------------------
(* net.c: which handler a protocol has *)

\* A map without life time that is not full takes a new key in.
LEMMA RoomTakes ==
  ASSUME NEW K, NEW V, NEW m, MapInv(m, K, V, 1), m.timeout = 0, m.size < m.max,
         NEW k \in K, NEW v \in V, NEW w, AfterSet(m, k, v, 1, w)
  PROVE  /\ Kept(K, V, m, w, 1) /\ w.size \in {m.size, m.size + 1}
         /\ MapHas(w, k, 1) /\ MapGet(w, k, 1) = v
         /\ Others(K, {k}, m, w, 1)
<1>1. MapTyped(m, K, V, 1) /\ MapCounted(m, 1)
  BY DEF MapInv
<1>2. m.max \in Nat /\ m.size \in Int
  BY <1>1 DEF MapTyped
<1>3. m.size = Cardinality(Live(m, 1)) /\ Cardinality(Live(m, 1)) \in Nat
  BY <1>1, <1>2, LiveFinite DEF MapCounted, MapDrift
<1>4. ~ MapRefuses(m, k, 1)
  <2> SUFFICES ASSUME Free(m, 1) = {} PROVE FALSE
    BY <1>2 DEF MapRefuses
  <2>1. Live(m, 1) = 0..(m.max - 1)
    BY DEF Live, Free
  <2>2. PICK n : n = m.max - 1
    OBVIOUS
  <2>3. 0 \in Int /\ n \in Int
    BY <1>2, <2>2
  <2>4. Cardinality(0..n) = IF 0 > n THEN 0 ELSE n - 0 + 1
    BY <2>3, FS_Interval, Zenon
  <2> QED BY <1>2, <1>3, <2>1, <2>2, <2>4
<1>5. Stores(w, k, Entry(k, v, 1), 1) /\ Kept(K, V, m, w, 1) /\ Others(K, {k}, m, w, 1)
  BY <1>4, MapSetEffect
<1>6. w.size \in {m.size, m.size + 1}
  <2>1. w = MapSet(m, k, v, 1)
    BY DEF AfterSet
  <2>2. DOMAIN m = {"slots", "size", "max", "timeout"}
    BY <1>1 DEF MapTyped
  <2> QED BY <2>1, <2>2, <1>4 DEF MapSet
<1> QED BY <1>5, <1>6 DEF Stores, MapGet, Entry

ProtocolKeys == {ArpType, IpType, OtherType, IcmpProto, TcpProto, UdpProto}
Handlers == {"arp_in", "ip_in", "icmp_in", "udp_in"}

\* m holds the handlers given by h, and none for other protocols.
Holds(m, h) ==
  /\ MapInv(m, ProtocolKeys, Handlers, 1) /\ m.timeout = 0 /\ m.max = NetSlots
  /\ \A p \in ProtocolKeys : MapHas(m, p, 1) <=> p \in DOMAIN h
  /\ \A p \in ProtocolKeys \cap DOMAIN h : MapGet(m, p, 1) = h[p]

LEMMA Registered ==
  ASSUME NEW m, NEW h, Holds(m, h), m.size < NetSlots,
         NEW p \in ProtocolKeys, p \notin DOMAIN h, NEW f \in Handlers,
         NEW w, w = net_add_protocol(m, p, f),
         NEW g, g = [q \in DOMAIN h \cup {p} |-> IF q = p THEN f ELSE h[q]]
  PROVE  Holds(w, g) /\ w.size \in {m.size, m.size + 1}
<1>1. AfterSet(m, p, f, 1, w)
  BY DEF AfterSet, net_add_protocol, Stamp
<1>2. MapInv(m, ProtocolKeys, Handlers, 1) /\ m.timeout = 0 /\ m.size < m.max /\ m.max = NetSlots
  BY DEF Holds
<1>3. /\ Kept(ProtocolKeys, Handlers, m, w, 1) /\ w.size \in {m.size, m.size + 1}
      /\ MapHas(w, p, 1) /\ MapGet(w, p, 1) = f
      /\ Others(ProtocolKeys, {p}, m, w, 1)
  BY <1>1, <1>2, RoomTakes
<1>4. \A q \in ProtocolKeys \ {p} :
        /\ MapHas(w, q, 1) <=> MapHas(m, q, 1)
        /\ MapHas(m, q, 1) => MapGet(w, q, 1) = MapGet(m, q, 1)
  BY <1>3 DEF Others, SameFor, MapGet
<1>5. DOMAIN g = DOMAIN h \cup {p} /\ \A q \in DOMAIN g : g[q] = IF q = p THEN f ELSE h[q]
  OBVIOUS
<1> QED BY <1>2, <1>3, <1>4, <1>5 DEF Holds, Kept

\* What net_init registers: the tables are large enough for all of it.
LEMMA NetTableHolds ==
  /\ \A p \in ProtocolKeys : MapHas(NetTable, p, 1) /\ MapGet(NetTable, p, 1) = "udp_in"
                              => p = UdpProto
  /\ MapHas(NetTable, IcmpProto, 1) /\ MapGet(NetTable, IcmpProto, 1) = "icmp_in"
  /\ app = "udp_server" =>
       /\ MapHas(NetTable, IpType, 1) /\ MapGet(NetTable, IpType, 1) = "ip_in"
       /\ MapHas(NetTable, UdpProto, 1) /\ MapGet(NetTable, UdpProto, 1) = "udp_in"
<1> DEFINE h0 == [q \in {} |-> "none"]
           h1 == [q \in {ArpType} |-> "arp_in"]
           h2 == [q \in {ArpType, IpType} |-> IF q = IpType THEN "ip_in" ELSE "arp_in"]
           h3 == [q \in {ArpType, IpType, IcmpProto} |->
                    IF q = IcmpProto THEN "icmp_in" ELSE IF q = IpType THEN "ip_in" ELSE "arp_in"]
           h4 == [q \in {ArpType, IpType, IcmpProto, UdpProto} |->
                    IF q = UdpProto THEN "udp_in" ELSE
                    IF q = IcmpProto THEN "icmp_in" ELSE IF q = IpType THEN "ip_in" ELSE "arp_in"]
<1>1. PICK m0 : m0 = MapInit(NetSlots, 0)
  OBVIOUS
<1>2. PICK m1 : m1 = net_add_protocol(m0, ArpType, "arp_in")
  OBVIOUS
<1>3. PICK m2 : m2 = net_add_protocol(m1, IpType, "ip_in")
  OBVIOUS
<1>4. PICK m3 : m3 = net_add_protocol(m2, IcmpProto, "icmp_in")
  OBVIOUS
<1>5. PICK m4 : m4 = net_add_protocol(m3, UdpProto, "udp_in")
  OBVIOUS
<1>6. NetTable = IF app = "udp_server" THEN m4 ELSE m3
  BY <1>1, <1>2, <1>3, <1>4, <1>5 DEF NetTable, CommonProtocols
<1>7. /\ ProtocolKeys = {2054, 2048, 34525, 1, 6, 17}
      /\ ArpType = 2054 /\ IpType = 2048 /\ IcmpProto = 1 /\ UdpProto = 17
      /\ Handlers = {"arp_in", "ip_in", "icmp_in", "udp_in"} /\ NetSlots = 4
  BY DEF ProtocolKeys, ArpType, IpType, OtherType, IcmpProto, TcpProto, UdpProto, Handlers, NetSlots
<1>8. Holds(m0, h0) /\ m0.size = 0
  <2>1. NetSlots \in Nat \ {0} /\ 0 \in Nat
    BY <1>7
  <2>2. MapInv(m0, ProtocolKeys, Handlers, 1) /\ m0.max = NetSlots /\ m0.timeout = 0 /\ \A p : ~ MapHas(m0, p, 1)
    BY <1>1, <2>1, NewMap
  <2> QED BY <1>1, <2>2 DEF Holds, MapInit
<1>9. Holds(m1, h1) /\ m1.size \in {0, 1}
  <2>1. h1 = [q \in DOMAIN h0 \cup {ArpType} |-> IF q = ArpType THEN "arp_in" ELSE h0[q]]
    OBVIOUS
  <2>2. m0.size < NetSlots /\ ArpType \in ProtocolKeys /\ ArpType \notin DOMAIN h0 /\ "arp_in" \in Handlers
    BY <1>7, <1>8
  <2> HIDE DEF h0, h1
  <2>3. Holds(m1, h1) /\ m1.size \in {m0.size, m0.size + 1}
    BY ONLY <1>2, <1>8, <2>1, <2>2, Registered
  <2> QED BY <1>8, <2>3
<1>10. Holds(m2, h2) /\ m2.size \in {0, 1, 2}
  <2>1. h2 = [q \in DOMAIN h1 \cup {IpType} |-> IF q = IpType THEN "ip_in" ELSE h1[q]]
    BY <1>7
  <2>2. m1.size < NetSlots /\ IpType \in ProtocolKeys /\ IpType \notin DOMAIN h1 /\ "ip_in" \in Handlers
    BY <1>7, <1>9
  <2> HIDE DEF h1, h2
  <2>3. Holds(m2, h2) /\ m2.size \in {m1.size, m1.size + 1}
    BY ONLY <1>3, <1>9, <2>1, <2>2, Registered
  <2> QED BY <1>9, <2>3
<1>11. Holds(m3, h3) /\ m3.size \in {0, 1, 2, 3}
  <2>1. h3 = [q \in DOMAIN h2 \cup {IcmpProto} |-> IF q = IcmpProto THEN "icmp_in" ELSE h2[q]]
    BY <1>7
  <2>2. m2.size < NetSlots /\ IcmpProto \in ProtocolKeys /\ IcmpProto \notin DOMAIN h2 /\ "icmp_in" \in Handlers
    BY <1>7, <1>10
  <2> HIDE DEF h2, h3
  <2>3. Holds(m3, h3) /\ m3.size \in {m2.size, m2.size + 1}
    BY ONLY <1>4, <1>10, <2>1, <2>2, Registered
  <2> QED BY <1>10, <2>3
<1>12. Holds(m4, h4)
  <2>1. h4 = [q \in DOMAIN h3 \cup {UdpProto} |-> IF q = UdpProto THEN "udp_in" ELSE h3[q]]
    BY <1>7
  <2>2. m3.size < NetSlots /\ UdpProto \in ProtocolKeys /\ UdpProto \notin DOMAIN h3 /\ "udp_in" \in Handlers
    BY <1>7, <1>11
  <2> HIDE DEF h3, h4
  <2>3. Holds(m4, h4) /\ m4.size \in {m3.size, m3.size + 1}
    BY ONLY <1>5, <1>11, <2>1, <2>2, Registered
  <2> QED BY <2>3
<1>13. /\ \A p \in ProtocolKeys : MapHas(m3, p, 1) => MapGet(m3, p, 1) # "udp_in"
       /\ \A p \in ProtocolKeys : MapHas(m4, p, 1) /\ MapGet(m4, p, 1) = "udp_in" => p = UdpProto
       /\ MapHas(m3, IcmpProto, 1) /\ MapGet(m3, IcmpProto, 1) = "icmp_in"
       /\ MapHas(m4, IcmpProto, 1) /\ MapGet(m4, IcmpProto, 1) = "icmp_in"
       /\ MapHas(m4, IpType, 1) /\ MapGet(m4, IpType, 1) = "ip_in"
       /\ MapHas(m4, UdpProto, 1) /\ MapGet(m4, UdpProto, 1) = "udp_in"
  <2>1. \A p \in ProtocolKeys : (MapHas(m3, p, 1) <=> p \in DOMAIN h3) /\ (p \in DOMAIN h3 => MapGet(m3, p, 1) = h3[p])
    <3> HIDE DEF h3
    <3> QED BY <1>11 DEF Holds
  <2>2. \A p \in ProtocolKeys : (MapHas(m4, p, 1) <=> p \in DOMAIN h4) /\ (p \in DOMAIN h4 => MapGet(m4, p, 1) = h4[p])
    <3> HIDE DEF h4
    <3> QED BY <1>12 DEF Holds
  <2> QED BY <1>7, <2>1, <2>2
<1> QED BY <1>6, <1>13

-----------------------------------------------------------------------------
(* What a handler is told of a frame *)

\* Whether the sum over a frame from host src is what the frame says.
SumRight(src, f) == checksum16(Pseudo(src, SelfIp) \o <<f.port, f.data>>) = f.check

\* A handler is given a datagram only if its sum is right, and answers with the
\* datagram's own data; and it is given it then, if it is for an open port.
Told(f, src) ==
  /\ heard' \in BOOLEAN
  /\ heard' => f.kind = "udp" /\ SumRight(src, f)
  /\ out'.kind = "echo" => f.kind = "udp" /\ out' = udp_out(ServerPort, src, f.data)
  /\ app = "udp_server" /\ f.kind = "udp" /\ SumRight(src, f) /\ MapHas(udp_table, f.port, Stamp)
       => heard' /\ out' = udp_out(ServerPort, src, f.data)

LEMMA DropTells ==
  ASSUME NEW b, NEW f, NEW src, Drop(b), f.kind # "udp" \/ ~ SumRight(src, f)
  PROVE  Told(f, src)
BY DEF Drop, Leave, Nothing, Told

LEMMA IcmpInTells ==
  ASSUME NEW b, NEW f, NEW src, icmp_in(b, f), f.kind # "udp"
  PROVE  Told(f, src)
<1>1. CASE f.kind = "echo"
  <2>1. Leave(b, Send("reply", b.payload), FALSE)
    BY <1>1 DEF icmp_in
  <2> QED BY <2>1 DEF Leave, Send, Told
<1>2. CASE f.kind = "answer" /\ ~MapHas(map_ping_req, f.seq, Stamp)
  <2>1. out' = Nothing /\ heard' = FALSE
    BY <1>2 DEF icmp_in
  <2> QED BY <2>1 DEF Told, Nothing
<1>3. CASE f.kind = "answer" /\ MapHas(map_ping_req, f.seq, Stamp)
  <2>1. Leave(b, Nothing, FALSE)
    BY <1>3 DEF icmp_in
  <2> QED BY <2>1 DEF Leave, Nothing, Told
<1>4. CASE f.kind \notin {"echo", "answer"}
  <2>1. Drop(b)
    BY <1>4 DEF icmp_in
  <2> QED BY <2>1, DropTells
<1> QED BY <1>1, <1>2, <1>3, <1>4

LEMMA UdpInTells ==
  ASSUME NEW S, NEW b \in Bufs(S), PseudoLen <= b.data, NEW f, udp_in(b, f), f.kind = "udp"
  PROVE  Told(f, b.payload)
<1>1. PseudoHeaderOff(PseudoHeaderOn(b, f.hlen), b.payload) = b
  BY PseudoHeaderRoundTrip
<1>2. Sum(b, f) = f.check <=> SumRight(b.payload, f)
  BY DEF Sum, SumRight
<1>3. CASE Sum(b, f) # f.check
  <2>1. Drop(b)
    BY <1>1, <1>3 DEF udp_in
  <2> QED BY <1>2, <1>3, <2>1, DropTells
<1>4. CASE Sum(b, f) = f.check /\ ~MapHas(udp_table, f.port, Stamp)
  <2> DEFINE q == buf_add_header(b, IpLen)
  <2>1. Leave(q, [kind |-> "port", to |-> SelfIp, whole |-> q.data = rxbuf.data + EthLen], FALSE)
    BY <1>1, <1>4 DEF udp_in, icmp_unreachable
  <2> HIDE DEF q
  <2> QED BY <1>4, <2>1 DEF Leave, Send, Told
<1>5. CASE Sum(b, f) = f.check /\ MapHas(udp_table, f.port, Stamp)
  <2> DEFINE q == buf_remove_header(b, UdpLen)
  <2>1. Leave(q, udp_out(ServerPort, b.payload, f.data), TRUE)
    BY <1>1, <1>5 DEF udp_in, udp_handler
  <2> HIDE DEF q
  <2>2. heard' = TRUE /\ out' = udp_out(ServerPort, b.payload, f.data)
    BY <2>1 DEF Leave
  <2> QED BY <1>2, <1>5, <2>2 DEF Told
<1> QED BY <1>3, <1>4, <1>5

\* The protocols as net_init registered them, as far as a datagram needs them.
Dispatch ==
  /\ net_in(IcmpProto) = "icmp_in" /\ net_in(TcpProto) # "udp_in"
  /\ app = "udp_server" => net_in(IpType) = "ip_in" /\ net_in(UdpProto) = "udp_in"

LEMMA NetTableDispatches == net_table = NetTable => Dispatch
BY NetTableHolds
   DEF Dispatch, net_in, Stamp, ProtocolKeys, IcmpProto, TcpProto, UdpProto, IpType

\* Only programs that registered UDP get datagrams as such.
Fits(f) == f.kind = "udp" => app = "udp_server" /\ f.type = IpType

LEMMA IpInTells ==
  ASSUME NEW S, NEW b \in Bufs(S), EthLen <= b.data, NEW f, Stated(f), ip_in(b, f),
         Dispatch, Fits(f)
  PROVE  Told(f, b.payload)
<1> DEFINE up == buf_remove_header(b, f.hlen)
<1>1. f.kind # "noise" => up \in Bufs(S) /\ up.payload = b.payload /\ PseudoLen <= up.data
  BY HeaderTakenAway DEF Stated
<1>2. f.kind = "udp" => net_in(Protocol(f)) = "udp_in"
  BY DEF Protocol, Dispatch, Fits
<1>3. net_in(Protocol(f)) = "udp_in" => f.kind = "udp"
  <2>1. f.kind # "udp" => Protocol(f) \in {IcmpProto, TcpProto}
    BY DEF Protocol
  <2> QED BY <2>1 DEF Dispatch
<1>4. CASE f.kind = "noise"
  <2>1. Drop(b)
    BY <1>4 DEF ip_in
  <2> QED BY <1>4, <2>1, DropTells
<1>5. CASE f.kind # "noise" /\ net_in(Protocol(f)) = "none"
  <2>1. icmp_unreachable(up, "protocol", buf_copy(b), up.payload)
    BY <1>5 DEF ip_in
  <2>2. f.kind # "udp"
    BY <1>2, <1>5
  <2> HIDE DEF up
  <2> QED BY <2>1, <2>2 DEF icmp_unreachable, Leave, Send, Told
<1>6. CASE f.kind # "noise" /\ net_in(Protocol(f)) \notin {"none", "udp_in"}
  <2>1. icmp_in(up, f)
    BY <1>6 DEF ip_in
  <2>2. f.kind # "udp"
    BY <1>2, <1>6
  <2> QED BY <2>1, <2>2, IcmpInTells
<1>7. CASE f.kind # "noise" /\ net_in(Protocol(f)) = "udp_in"
  <2>1. udp_in(up, f) /\ f.kind = "udp"
    BY <1>3, <1>7 DEF ip_in
  <2> HIDE DEF up
  <2>2. Told(f, up.payload)
    BY <1>1, <1>7, <2>1, UdpInTells
  <2> QED BY <1>1, <1>7, <2>2
<1> QED BY <1>4, <1>5, <1>6, <1>7

LEMMA EthernetInTells ==
  ASSUME NEW S, NEW b \in Bufs(S), EthLen <= b.len, NEW f, Stated(f), ethernet_in(b, f),
         Dispatch, Fits(f)
  PROVE  Told(f, b.payload)
<1> DEFINE up == buf_remove_header(b, EthLen)
<1> EthLen \in Nat /\ UdpLen \in Nat /\ HdrLenMax \in Nat
  BY LengthsAssumption
<1>1. /\ up \in Bufs(S) /\ up.data = b.data + EthLen /\ up.payload = b.payload
      /\ EthLen <= up.data
  BY DEF Bufs, buf_remove_header
<1>2. CASE net_in(f.type) = "ip_in"
  <2>1. ip_in(up, f)
    BY <1>2 DEF ethernet_in
  <2> HIDE DEF up
  <2>2. Told(f, up.payload)
    BY <1>1, <2>1, IpInTells
  <2> QED BY <1>1, <2>2
<1>3. CASE net_in(f.type) # "ip_in"
  <2>1. Drop(up)
    BY <1>3 DEF ethernet_in
  <2>2. f.kind # "udp"
    BY <1>3 DEF Dispatch, Fits
  <2> QED BY <2>1, <2>2, DropTells
<1> QED BY <1>2, <1>3

-----------------------------------------------------------------------------
(* The datagrams that arrive *)

LEMMA WordFacts ==
  /\ WordMod \in Nat /\ WordMod > 1
  /\ SelfIp \in Words /\ ServerPort \in Words /\ UdpProto % WordMod \in Words
  /\ Peers \subseteq Words /\ Ports \subseteq Words /\ Payloads \subseteq Words
<1>1. WordMod \in Nat /\ WordMod > 1
  BY WordAssumption
<1>2. 17 % WordMod \in 0..(WordMod - 1)
  BY <1>1
<1> QED BY <1>1, <1>2, WordsAssumption DEF Words, UdpProto

Five(src, dst, port, data) == <<src, dst, UdpProto % WordMod, port, data>>

LEMMA JoinTwo ==
  ASSUME NEW a, NEW b, NEW c, NEW d, NEW e
  PROVE  <<a, b, c>> \o <<d, e>> = <<a, b, c, d, e>>
<1>1. PICK S, s, t, v : /\ S = {a, b, c, d, e} /\ s = <<a, b, c>> /\ t = <<d, e>>
                        /\ v = <<a, b, c, d, e>>
  OBVIOUS
<1>2. s \in Seq(S) /\ t \in Seq(S) /\ v \in Seq(S) /\ Len(s) = 3 /\ Len(t) = 2 /\ Len(v) = 5
  BY <1>1
<1>3. PICK w : w = s \o t
  OBVIOUS
<1>4. /\ w \in Seq(S) /\ Len(w) = 5
      /\ \A i \in 1..5 : w[i] = IF i <= 3 THEN s[i] ELSE t[i - 3]
  <2>1. s \in Seq(S) /\ t \in Seq(S)
    BY <1>2
  <2>2. /\ s \o t \in Seq(S) /\ Len(s \o t) = Len(s) + Len(t)
        /\ \A i \in 1..(Len(s) + Len(t)) : (s \o t)[i] = IF i <= Len(s) THEN s[i] ELSE t[i - Len(s)]
    BY ONLY <2>1, ConcatProperties
  <2> QED BY ONLY <1>2, <1>3, <2>2
<1>5. \A i \in 1..5 : w[i] = v[i]
  BY <1>1, <1>4
<1>6. w = v
  BY <1>2, <1>4, <1>5, SeqEqual
<1> QED BY <1>1, <1>3, <1>6

LEMMA JoinThree ==
  ASSUME NEW a, NEW b, NEW c, NEW d, NEW e, NEW f
  PROVE  <<a, b, c>> \o <<d, e, f>> = <<a, b, c, d, e, f>>
<1>1. PICK S, s, t, v : /\ S = {a, b, c, d, e, f} /\ s = <<a, b, c>> /\ t = <<d, e, f>>
                        /\ v = <<a, b, c, d, e, f>>
  OBVIOUS
<1>2. s \in Seq(S) /\ t \in Seq(S) /\ v \in Seq(S) /\ Len(s) = 3 /\ Len(t) = 3 /\ Len(v) = 6
  BY <1>1
<1>3. PICK w : w = s \o t
  OBVIOUS
<1>4. /\ w \in Seq(S) /\ Len(w) = 6
      /\ \A i \in 1..6 : w[i] = IF i <= 3 THEN s[i] ELSE t[i - 3]
  <2>1. s \in Seq(S) /\ t \in Seq(S)
    BY <1>2
  <2>2. /\ s \o t \in Seq(S) /\ Len(s \o t) = Len(s) + Len(t)
        /\ \A i \in 1..(Len(s) + Len(t)) : (s \o t)[i] = IF i <= Len(s) THEN s[i] ELSE t[i - Len(s)]
    BY ONLY <2>1, ConcatProperties
  <2> QED BY ONLY <1>2, <1>3, <2>2
<1>5. \A i \in 1..6 : w[i] = v[i]
  BY <1>1, <1>4
<1>6. w = v
  BY <1>2, <1>4, <1>5, SeqEqual
<1> QED BY <1>1, <1>3, <1>6

LEMMA FiveWords ==
  \A src, dst, port, data : Pseudo(src, dst) \o <<port, data>> = Five(src, dst, port, data)
BY JoinTwo DEF Pseudo, Five

\* A check value of a peer is a word.
LEMMA PeerCheckIsWord ==
  ASSUME NEW src \in Words, NEW dst \in Words, NEW port \in Words, NEW data \in Words
  PROVE  PeerChecksum(Five(src, dst, port, data)) \in Words
<1>1. PICK c : c = UdpProto % WordMod
  OBVIOUS
<1>2. src \in Nat /\ dst \in Nat /\ c \in Nat /\ port \in Nat /\ data \in Nat
  BY <1>1, WordFacts DEF Words
<1>3. PICK w : w = Five(src, dst, port, data)
  OBVIOUS
<1>4. w = <<src, dst, c, port, data>>
  BY <1>1, <1>3 DEF Five
<1>5. Total(<<src, dst, c, port, data>>) = src + dst + c + port + data
  BY ONLY <1>2, TotalOfFive
<1>6. PICK s \in Nat : s = Total(w)
  BY <1>2, <1>4, <1>5
<1>7. PICK e : Folded(s, e) /\ PeerChecksum(w) = IF e = WordMod - 1 THEN WordMod - 1 ELSE WordMod - 1 - e
  BY <1>6, Checksums
<1>8. e \in 0..(WordMod - 1)
  BY <1>7 DEF Folded
<1> QED BY <1>3, <1>7, <1>8, WordFacts DEF Words

\* What the damage leaves of a datagram.
LEMMA UdpFrame ==
  ASSUME NEW f \in Udp
  PROVE  /\ f.kind = "udp" /\ f.type = IpType /\ f.src \in Peers
         /\ \E port \in Words, data \in Words :
              /\ f.was = <<port, data>>
              /\ f.port \in Words /\ f.data \in Words /\ f.check \in Words
              /\ \/ f.port = port /\ f.data = data
                 \/ /\ f.check = PeerChecksum(Five(f.src, SelfIp, port, data))
                    /\ f.port = port \/ f.data = data
<1>1. PICK p \in Peers, h \in Whole, port \in Ports, data \in Payloads :
        f \in Damaged(Datagram(p, h, port, data))
  BY DEF Udp
<1>2. p \in Words /\ port \in Words /\ data \in Words /\ SelfIp \in Words
  BY WordFacts
<1>3. PICK k : k = PeerChecksum(Five(p, SelfIp, port, data)) /\ k \in Words
  BY <1>2, PeerCheckIsWord
<1>4. PICK d : d = [kind |-> "udp", type |-> IpType, src |-> p, hlen |-> h, port |-> port, data |-> data,
                    check |-> k, was |-> <<port, data>>]
  OBVIOUS
<1>5. Datagram(p, h, port, data) = d
  BY <1>3, <1>4, FiveWords DEF Datagram
<1>6. \/ \E w \in Ports : f = [d EXCEPT !.port = w]
      \/ \E w \in Words : f = [d EXCEPT !.data = w]
      \/ \E w \in Words : f = [d EXCEPT !.check = w]
  BY <1>1, <1>5 DEF Damaged
<1>7. CASE \E w \in Ports : f = [d EXCEPT !.port = w]
  <2>1. /\ f.kind = "udp" /\ f.type = IpType /\ f.src = p /\ f.port \in Ports /\ f.data = data
        /\ f.check = k /\ f.was = <<port, data>>
    BY <1>4, <1>7
  <2> QED BY <1>2, <1>3, <2>1, WordFacts
<1>8. CASE \E w \in Words : f = [d EXCEPT !.data = w]
  <2>1. /\ f.kind = "udp" /\ f.type = IpType /\ f.src = p /\ f.port = port /\ f.data \in Words
        /\ f.check = k /\ f.was = <<port, data>>
    BY <1>4, <1>8
  <2> QED BY <1>2, <1>3, <2>1
<1>9. CASE \E w \in Words : f = [d EXCEPT !.check = w]
  <2>1. /\ f.kind = "udp" /\ f.type = IpType /\ f.src = p /\ f.port = port /\ f.data = data
        /\ f.check \in Words /\ f.was = <<port, data>>
    BY <1>4, <1>9
  <2> QED BY <1>2, <1>3, <2>1
<1> QED BY <1>6, <1>7, <1>8, <1>9

LEMMA ArrivalsFit ==
  ASSUME NEW f \in Arrivals
  PROVE  /\ Fits(f)
         /\ f.kind = "udp" => f \in Udp
<1>1. f \in Plain \cup Echo \cup Report \cup Foreign \cup {Answer(w) : w \in wire} => f.kind # "udp"
  BY DEF Plain, Echo, Report, Foreign, Answer
<1>2. f \in Udp => app = "udp_server" \/ f.kind # "udp"
  BY <1>1 DEF Arrivals
<1>3. f.kind = "udp" => f \in Udp /\ app = "udp_server"
  BY <1>1 DEF Arrivals
<1> QED BY <1>3, UdpFrame DEF Fits

-----------------------------------------------------------------------------
(* The checksum invariant *)

SumInv ==
  /\ pc \in {"open", "init", "failed", "ping", "poll", "null", "overrun"}
  /\ pc \in {"open", "init", "failed"} => last = Nothing /\ out = Nothing /\ heard = FALSE
  /\ pc \in {"ping", "poll"} => net_table = NetTable
  /\ heard \in BOOLEAN
  /\ DamageShows /\ UndamagedHeard /\ AnswersVerify

\* A step that hands nothing up keeps the properties of what was.
LEMMA Silent ==
  ASSUME last' = Nothing, heard' = FALSE, out'.kind # "echo"
  PROVE  DamageShows' /\ UndamagedHeard' /\ AnswersVerify'
BY DEF DamageShows, UndamagedHeard, AnswersVerify, Nothing

LEMMA SumInit == Init => SumInv
<1> SUFFICES ASSUME Init PROVE SumInv
  OBVIOUS
<1>1. pc = "open" /\ last = Nothing /\ out = Nothing /\ heard = FALSE
  BY DEF Init
<1> QED BY <1>1 DEF SumInv, DamageShows, UndamagedHeard, AnswersVerify, Nothing

\* The three properties from what the step told the handlers.
LEMMA ToldKeeps ==
  ASSUME NEW f \in Arrivals, last' = f, Told(f, f.src), UNCHANGED <<app, udp_table>>
  PROVE  DamageShows' /\ UndamagedHeard' /\ AnswersVerify'
<1>1. /\ Fits(f)
      /\ f.kind = "udp" => f \in Udp
  BY ArrivalsFit
<1>2. CASE f.kind # "udp"
  <2>1. heard' = FALSE /\ out'.kind # "echo" /\ last'.kind # "udp"
    BY <1>2 DEF Told
  <2> QED BY <2>1 DEF DamageShows, UndamagedHeard, AnswersVerify
<1>3. CASE f.kind = "udp"
  <2>1. f \in Udp
    BY <1>1, <1>3
  <2>2. f.src \in Peers
    BY <2>1, UdpFrame
  <2>3. PICK port \in Words, data \in Words :
              /\ f.was = <<port, data>>
              /\ f.port \in Words /\ f.data \in Words /\ f.check \in Words
              /\ \/ f.port = port /\ f.data = data
                 \/ /\ f.check = PeerChecksum(Five(f.src, SelfIp, port, data))
                    /\ f.port = port \/ f.data = data
    BY <2>1, UdpFrame
  <2>4. PICK c : c = UdpProto % WordMod
    OBVIOUS
  <2>5. PICK a : a = f.src
    OBVIOUS
  <2>6. a \in Words /\ SelfIp \in Words /\ c \in Words /\ ServerPort \in Words
    BY <2>2, <2>4, <2>5, WordFacts
  <2>7. PICK x \in Words, y \in Words, k \in Words : x = f.port /\ y = f.data /\ k = f.check
    BY <2>3
  <2>8. SumRight(f.src, f) <=> checksum16(<<a, SelfIp, c, x, y>>) = k
    BY <2>4, <2>5, <2>7, FiveWords DEF SumRight, Five
  <2>9. PICK k0 : k0 = PeerChecksum(<<a, SelfIp, c, port, data>>)
    OBVIOUS
  <2>10. Datagram(f.src, f.hlen, port, data) =
           [kind |-> "udp", type |-> IpType, src |-> a, hlen |-> f.hlen, port |-> port,
            data |-> data, check |-> k0, was |-> <<port, data>>]
    BY <2>4, <2>5, <2>9, FiveWords DEF Datagram, Five
  <2>11. f.was[1] = port /\ f.was[2] = data
    BY <2>3
  <2>12. Pseudo(f.src, SelfIp) \o f.was = <<a, SelfIp, c, port, data>>
    <3>1. f.was = <<port, data>>
      BY ONLY <2>3
    <3>2. Pseudo(a, SelfIp) \o <<port, data>> = Five(a, SelfIp, port, data)
      BY ONLY FiveWords
    <3> QED BY ONLY <2>4, <2>5, <3>1, <3>2 DEF Five
  <2>13. DamageShows'
    <3> SUFFICES ASSUME heard' = TRUE
                 PROVE  SameToTheSum(x, port) /\ SameToTheSum(y, data) /\ SameToTheSum(k, k0)
      BY <2>7, <2>10, <2>11 DEF DamageShows, Told
    <3>1. checksum16(<<a, SelfIp, c, x, y>>) = k
      BY <2>8 DEF Told
    <3>2. (x = port /\ y = data) \/ (k = k0 /\ (x = port \/ y = data))
      BY <2>3, <2>4, <2>5, <2>7, <2>9 DEF Five
    <3>3. OneDamaged(a, SelfIp, c, port, data, x, y, k)
      BY <2>6, <2>9, <3>1, <3>2 DEF OneDamaged
    <3> QED BY <2>9, <3>3, OneDamageShows
  <2>14. UndamagedHeard'
    <3> SUFFICES ASSUME app = "udp_server", f = Datagram(f.src, f.hlen, port, data),
                        MapHas(udp_table, f.port, Stamp),
                        checksum16(Pseudo(f.src, SelfIp) \o f.was) # 0
                 PROVE  heard' /\ out'.kind = "echo" /\ out'.to = f.src /\ out'.data = f.data
      BY <2>11 DEF UndamagedHeard, Undamaged
    <3>1. x = port /\ y = data /\ k = k0
      BY <2>7, <2>10
    <3>2. checksum16(<<a, SelfIp, c, port, data>>) # 0
      <4>2. checksum16(Pseudo(f.src, SelfIp) \o f.was) # 0
        OBVIOUS
      <4>3. PICK v : v = Pseudo(f.src, SelfIp) \o f.was
        OBVIOUS
      <4>4. checksum16(v) # 0 /\ v = <<a, SelfIp, c, port, data>>
        BY <2>12, <4>2, <4>3
      <4> QED BY ONLY <4>4
    <3>3. PICK w : w = <<a, SelfIp, c, port, data>>
      OBVIOUS
    <3>4. PICK s \in Nat : s = Total(w)
      <4>1. a \in Nat /\ SelfIp \in Nat /\ c \in Nat /\ port \in Nat /\ data \in Nat
        BY <2>6, WordFacts DEF Words
      <4>2. Total(<<a, SelfIp, c, port, data>>) = a + SelfIp + c + port + data
        BY ONLY <4>1, TotalOfFive
      <4> QED BY <3>3, <4>1, <4>2
    <3>5. PICK e : /\ Folded(s, e) /\ checksum16(w) = WordMod - 1 - e
                   /\ PeerChecksum(w) = IF e = WordMod - 1 THEN WordMod - 1 ELSE WordMod - 1 - e
      BY <3>4, Checksums
    <3>6. e # WordMod - 1
      BY <3>2, <3>3, <3>5, WordFacts
    <3>7. SumRight(f.src, f)
      BY <2>8, <2>9, <3>1, <3>3, <3>5, <3>6
    <3>8. heard' /\ out' = udp_out(ServerPort, f.src, f.data)
      BY <1>3, <3>7 DEF Told
    <3> QED BY <3>8 DEF udp_out
  <2>15. AnswersVerify'
    <3> SUFFICES ASSUME out'.kind = "echo"
                 PROVE  Total(Pseudo(SelfIp, out'.to) \o <<out'.port, out'.data, out'.check>>)
                          % (WordMod - 1) = 0
      BY DEF AnswersVerify
    <3>1. out' = udp_out(ServerPort, f.src, f.data)
      BY DEF Told
    <3>2. PICK j : j = checksum16(<<SelfIp, a, c, ServerPort, y>>)
      OBVIOUS
    <3>3. out'.to = a /\ out'.port = ServerPort /\ out'.data = y /\ out'.check = j
      BY <2>4, <2>5, <2>7, <3>1, <3>2, FiveWords DEF udp_out, Five
    <3>4. Pseudo(SelfIp, a) \o <<ServerPort, y, j>> = <<SelfIp, a, c, ServerPort, y, j>>
      BY <2>4, JoinThree DEF Pseudo
    <3>5. Total(<<SelfIp, a, c, ServerPort, y, j>>) % (WordMod - 1) = 0
      BY <2>6, <3>2, SumsToZero
    <3> QED BY <3>3, <3>4, <3>5
  <2> QED BY <2>13, <2>14, <2>15
<1> QED BY <1>2, <1>3

LEMMA RecvSums ==
  ASSUME Inv, SumInv, pc = "poll", UNCHANGED <<setup, net_table, udp_table>>,
         NEW f \in Arrivals, driver_recv(f)
  PROVE  SumInv'
<1> DEFINE b == [len |-> Length(f), data |-> rxbuf.data, payload |-> f.src]
<1>1. /\ rxbuf.data \in Nat /\ last' = f /\ net_table = NetTable /\ app' = app
      /\ Length(f) \in Nat /\ EthLen <= Length(f)
  <2>1. rxbuf.data \in Nat
    BY DEF Inv
  <2>2. last' = f
    BY DEF driver_recv
  <2>3. net_table = NetTable /\ app' = app
    BY DEF SumInv, setup
  <2>4. Length(f) \in Nat /\ EthLen <= Length(f)
    BY LengthsAssumption DEF Length
  <2> QED BY <2>1, <2>2, <2>3, <2>4
<1>2. net_table' = NetTable'
  BY <1>1 DEF NetTable, CommonProtocols
<1>3. CASE InArray(b)
  <2>1. ethernet_in(b, f)
    BY <1>3 DEF driver_recv
  <2>2. b \in Bufs({f.src}) /\ EthLen <= b.len /\ b.payload = f.src /\ b.data = rxbuf.data
    BY <1>1 DEF Bufs
  <2>3. Dispatch /\ Fits(f)
    BY <1>1, NetTableDispatches, ArrivalsFit
  <2> HIDE DEF b
  <2>4. Told(f, f.src)
    BY <2>1, <2>2, <2>3, ArrivalsStated, EthernetInTells
  <2>5. DamageShows' /\ UndamagedHeard' /\ AnswersVerify'
    BY <1>1, <2>4, ToldKeeps
  <2>6. pc' \in {"ping", "poll", "null"}
    <3>1. Ended(b.data, Headers, b.payload)
      BY <2>1, <2>2, ArrivalsStated, EthernetInEnds
    <3> QED BY <3>1 DEF Ended
  <2> QED BY <1>2, <2>4, <2>5, <2>6 DEF SumInv, Told
<1>4. CASE ~InArray(b)
  <2>1. pc' = "overrun" /\ out' = Nothing /\ heard' = FALSE
    BY <1>4 DEF driver_recv
  <2> QED BY <2>1 DEF SumInv, DamageShows, UndamagedHeard, AnswersVerify, Nothing
<1> QED BY <1>3, <1>4

LEMMA PollSums == Inv /\ SumInv /\ net_poll => SumInv'
<1> SUFFICES ASSUME Inv, SumInv, net_poll PROVE SumInv'
  OBVIOUS
<1>1. pc = "poll" /\ UNCHANGED <<setup, net_table, udp_table>>
  BY DEF net_poll
<1>2. CASE \E f \in Arrivals : driver_recv(f)
  BY <1>1, <1>2, RecvSums
<1>3. CASE /\ pc' = LoopStart(target)
           /\ last' = Nothing /\ out' = Nothing /\ heard' = FALSE
  <2>1. pc' \in {"ping", "poll"}
    BY <1>3, LoopStarts
  <2>2. net_table = NetTable /\ app' = app
    BY <1>1 DEF SumInv, setup
  <2>3. net_table' = NetTable'
    BY <1>1, <2>2 DEF NetTable, CommonProtocols
  <2>4. out'.kind # "echo"
    BY <1>3 DEF Nothing
  <2> QED BY <1>3, <2>1, <2>3, <2>4, Silent DEF SumInv
<1> QED BY <1>2, <1>3 DEF net_poll

LEMMA NetInitSums == SumInv /\ net_init => SumInv'
<1> SUFFICES ASSUME SumInv, net_init PROVE SumInv'
  OBVIOUS
<1>1. pc = "init" /\ net_table' = NetTable /\ UNCHANGED <<app, last, out, heard>>
  BY DEF net_init, shown
<1>2. last' = Nothing /\ out' = Nothing /\ heard' = FALSE
  BY <1>1 DEF SumInv
<1>3. pc' \in {"ping", "poll"}
  BY LoopStarts DEF net_init
<1>4. net_table' = NetTable'
  BY <1>1 DEF NetTable, CommonProtocols
<1>5. out'.kind # "echo"
  BY <1>2 DEF Nothing
<1> QED BY <1>2, <1>3, <1>4, <1>5, Silent DEF SumInv

\* What else happens hands nothing up; a loopback ping is answered with a reply.
LEMMA OthersSum ==
  SumInv /\ (driver_open \/ ping_req \/ Tick \/ \E port \in Ports : udp_open(port) \/ udp_close(port))
    => SumInv'
<1> SUFFICES ASSUME SumInv, driver_open \/ ping_req \/ Tick
                            \/ \E port \in Ports : udp_open(port) \/ udp_close(port)
             PROVE  SumInv'
  OBVIOUS
<1>1. CASE driver_open
  <2>1. /\ pc = "open" /\ pc' \in {"failed", "init"}
        /\ UNCHANGED <<app, last, out, heard>>
    BY <1>1 DEF driver_open, shown
  <2>2. last' = Nothing /\ out' = Nothing /\ heard' = FALSE
    BY <2>1 DEF SumInv
  <2>3. out'.kind # "echo"
    BY <2>2 DEF Nothing
  <2> QED BY <2>1, <2>2, <2>3, Silent DEF SumInv
<1>2. CASE ping_req
  <2>1. /\ pc = "ping" /\ last' = Nothing /\ heard' = FALSE
        /\ UNCHANGED <<app, net_table>>
    BY <1>2 DEF ping_req, setup
  <2>2. pc' \in {"ping", "poll", "null"}
    BY <1>2, LoopStarts DEF ping_req
  <2>3. net_table' = NetTable'
    BY <2>1 DEF SumInv, NetTable, CommonProtocols
  <2>4. out'.kind # "echo"
    <3>1. \A dst, seq : icmp_req_out(dst, seq) => out'.kind # "echo"
      BY DEF icmp_req_out, Send, Nothing
    <3>2. \A dst, p : NextRequest(dst, p) \/ Finish(dst, p) => out'.kind # "echo"
      BY <3>1 DEF NextRequest, Finish, Nothing
    <3>3. \A dst, p : LaterCall(dst, p) => out'.kind # "echo"
      BY <3>2 DEF LaterCall, Nothing
    <3>4. \A dst : FirstCall(dst) => out'.kind # "echo"
      BY <3>1 DEF FirstCall, Nothing
    <3> QED BY <1>2, <3>3, <3>4 DEF ping_req, Nothing
  <2> QED BY <2>1, <2>2, <2>3, <2>4, Silent DEF SumInv
<1>3. CASE Tick \/ \E port \in Ports : udp_open(port) \/ udp_close(port)
  <2>1. /\ pc' = pc /\ pc \in {"ping", "poll"}
        /\ last' = Nothing /\ out' = Nothing /\ heard' = FALSE
        /\ UNCHANGED <<app, net_table>>
    BY <1>3 DEF Tick, udp_open, udp_close, setup
  <2>2. net_table' = NetTable'
    BY <2>1 DEF SumInv, NetTable, CommonProtocols
  <2>3. out'.kind # "echo"
    BY <2>1 DEF Nothing
  <2> QED BY <2>1, <2>2, <2>3, Silent DEF SumInv
<1> QED BY <1>1, <1>2, <1>3

THEOREM SumInvariance == Spec => []SumInv
<1>1. Inv /\ SumInv /\ [Next]_vars => SumInv'
  <2> SUFFICES ASSUME Inv, SumInv, [Next]_vars PROVE SumInv'
    OBVIOUS
  <2>1. CASE UNCHANGED vars
    <3>1. UNCHANGED <<pc, app, net_table, udp_table, last, out, heard>>
      BY <2>1 DEF vars, setup, shown
    <3>2. net_table = NetTable => net_table' = NetTable'
      BY <3>1 DEF NetTable, CommonProtocols
    <3> QED BY <3>1, <3>2 DEF SumInv, DamageShows, UndamagedHeard, AnswersVerify
  <2> QED BY <2>1, NetInitSums, PollSums, OthersSum DEF Next
<1> QED BY <1>1, SumInit, Invariance, PTL DEF Spec

\* A handler is given no datagram of which a word was damaged, for words of any
\* size and all values: but for the change between zero and all ones, which the
\* one's complement sum (checksum16, utils.c) cannot tell apart.
THEOREM DamageIsSeen == Spec => []DamageShows
<1>1. SumInv => DamageShows BY DEF SumInv
<1> QED BY <1>1, SumInvariance, PTL

\* An undamaged datagram for an open port is given to the handler and echoed,
\* if its sum is not the one RFC 768 sends as all ones: every protocol is
\* registered, the pseudo header is put on and taken off, the sum agrees with
\* the sender's.
THEOREM UndamagedIsHeard == Spec => []UndamagedHeard
<1>1. SumInv => UndamagedHeard BY DEF SumInv
<1> QED BY <1>1, SumInvariance, PTL

\* The sum that udp_out puts into an answer is right over the addresses as the
\* receiver sees them.
THEOREM EchoesVerify == Spec => []AnswersVerify
<1>1. SumInv => AnswersVerify BY DEF SumInv
<1> QED BY <1>1, SumInvariance, PTL

-----------------------------------------------------------------------------
(* What reports quote *)

\* What a step with this frame may report, the first after net_init or a later one.
Quotes(f) ==
  /\ out'.kind = "port" /\ f.hlen = IpLen => out'.whole
  /\ out'.kind = "protocol" /\ polled = 0 => out'.whole

\* Where the buffer is before the first frame.
Fresh == polled = 0 => rxbuf.data = Origin - FrameMax

LEMMA IcmpInQuotes ==
  ASSUME NEW b, NEW f, icmp_in(b, f)
  PROVE  Quotes(f)
<1>1. out'.kind \in {"reply", "none"}
  <2>1. CASE f.kind = "echo"
    BY <2>1 DEF icmp_in, Leave, Send
  <2>2. CASE f.kind = "answer"
    BY <2>2 DEF icmp_in, Leave, Nothing
  <2>3. CASE f.kind \notin {"echo", "answer"}
    BY <2>3 DEF icmp_in, Drop, Leave, Nothing
  <2> QED BY <2>1, <2>2, <2>3
<1> QED BY <1>1 DEF Quotes

\* Under the pseudo header and back, and the header put before it again, the buffer
\* is where the packet began, if its header was one without options.
LEMMA UdpInQuotes ==
  ASSUME NEW S, NEW b \in Bufs(S), PseudoLen <= b.data, NEW f, udp_in(b, f),
         rxbuf.data \in Nat, f.hlen = IpLen => b.data = rxbuf.data + EthLen + IpLen
  PROVE  Quotes(f)
<1> EthLen \in Nat /\ IpLen \in Nat
  BY LengthsAssumption
<1>1. PseudoHeaderOff(PseudoHeaderOn(b, f.hlen), b.payload) = b
  BY PseudoHeaderRoundTrip
<1>2. CASE Sum(b, f) # f.check
  <2>1. Drop(b)
    BY <1>1, <1>2 DEF udp_in
  <2> QED BY <2>1 DEF Drop, Leave, Nothing, Quotes
<1>3. CASE Sum(b, f) = f.check /\ ~MapHas(udp_table, f.port, Stamp)
  <2> DEFINE q == buf_add_header(b, IpLen)
  <2>1. Leave(q, [kind |-> "port", to |-> SelfIp, whole |-> q.data = rxbuf.data + EthLen], FALSE)
    BY <1>1, <1>3 DEF udp_in, icmp_unreachable
  <2>2. f.hlen = IpLen => q.data = rxbuf.data + EthLen
    BY DEF Bufs, buf_add_header
  <2> HIDE DEF q
  <2> QED BY <2>1, <2>2 DEF Leave, Quotes
<1>4. CASE Sum(b, f) = f.check /\ MapHas(udp_table, f.port, Stamp)
  <2>1. out'.kind = "echo"
    BY <1>1, <1>4 DEF udp_in, Leave, udp_handler, udp_out
  <2> QED BY <2>1 DEF Quotes
<1> QED BY <1>2, <1>3, <1>4

LEMMA IpInQuotes ==
  ASSUME NEW S, NEW b \in Bufs(S), EthLen <= b.data, NEW f, Stated(f), ip_in(b, f), Dispatch,
         rxbuf.data \in Nat, b.data = rxbuf.data + EthLen, b.len = Length(f) - EthLen, Fresh
  PROVE  Quotes(f)
<1> DEFINE up == buf_remove_header(b, f.hlen)
<1>1. /\ {EthLen, IpLen, UdpLen, HdrLenMax, FrameMax} \subseteq Nat
      /\ IpLen \in 0..HdrLenMax
      /\ EthLen + HdrLenMax + UdpLen <= FrameMax /\ FrameMax <= Origin
  BY LengthsAssumption
<1>2. net_in(Protocol(f)) \in {"none", "udp_in"} => f.kind = "noise" \/ Length(f) = FrameMax
  BY DEF Dispatch, Protocol, Length
<1>3. CASE f.kind = "noise"
  BY <1>3 DEF ip_in, Drop, Leave, Nothing, Quotes
<1>4. CASE f.kind # "noise" /\ net_in(Protocol(f)) = "none"
  <2>1. icmp_unreachable(up, "protocol", buf_copy(b), up.payload)
    BY <1>4 DEF ip_in
  <2>2. polled = 0 => buf_copy(b).data = rxbuf.data + EthLen
    BY <1>1, <1>2, <1>4, OriginInside DEF Fresh, buf_copy, buf_init, Bufs
  <2> HIDE DEF up
  <2> QED BY <2>1, <2>2 DEF icmp_unreachable, Leave, Quotes
<1>5. CASE f.kind # "noise" /\ net_in(Protocol(f)) = "udp_in"
  <2>1. udp_in(up, f)
    BY <1>5 DEF ip_in
  <2>2. up \in Bufs(S) /\ PseudoLen <= up.data
    BY <1>5, HeaderTakenAway DEF Stated
  <2>3. f.hlen = IpLen => up.data = rxbuf.data + EthLen + IpLen
    BY <1>1, <1>2, <1>5 DEF Bufs, buf_remove_header
  <2> HIDE DEF up
  <2> QED BY <2>1, <2>2, <2>3, UdpInQuotes
<1>6. CASE f.kind # "noise" /\ net_in(Protocol(f)) \notin {"none", "udp_in"}
  BY <1>6, IcmpInQuotes DEF ip_in
<1> QED BY <1>3, <1>4, <1>5, <1>6

LEMMA EthernetInQuotes ==
  ASSUME NEW S, NEW b \in Bufs(S), EthLen <= b.len, NEW f, Stated(f), ethernet_in(b, f), Dispatch,
         b.data = rxbuf.data, b.len = Length(f), Fresh
  PROVE  Quotes(f)
<1> DEFINE up == buf_remove_header(b, EthLen)
<1>1. EthLen \in Nat /\ rxbuf.data \in Nat
  BY LengthsAssumption DEF Bufs
<1>2. /\ up \in Bufs(S) /\ EthLen <= up.data
      /\ up.data = rxbuf.data + EthLen /\ up.len = Length(f) - EthLen
  BY <1>1 DEF Bufs, buf_remove_header
<1>3. CASE ip_in(up, f)
  <2> HIDE DEF up
  <2> QED BY <1>1, <1>2, <1>3, IpInQuotes
<1>4. CASE Drop(up)
  <2> HIDE DEF up
  <2> QED BY <1>4 DEF Drop, Leave, Nothing, Quotes
<1> QED BY <1>3, <1>4 DEF ethernet_in

QuoteInv == (pc \in {"ping", "poll"} => Fresh) /\ ReportsQuotePacket

LEMMA PollQuotes == Inv /\ SumInv /\ QuoteInv /\ net_poll => QuoteInv'
<1> SUFFICES ASSUME Inv, SumInv, QuoteInv, net_poll PROVE QuoteInv'
  OBVIOUS
<1>1. pc = "poll" /\ polled \in Nat /\ rxbuf.data \in Nat /\ Fresh /\ Dispatch
  BY NetTableDispatches DEF net_poll, Inv, SumInv, QuoteInv
<1>2. ASSUME NEW f \in Arrivals, driver_recv(f)
      PROVE  QuoteInv'
  <2> DEFINE b == [len |-> Length(f), data |-> rxbuf.data, payload |-> f.src]
  <2>1. last' = f /\ polled' = polled + 1 /\ polled' # 0
    BY <1>1, <1>2 DEF driver_recv
  <2>2. CASE InArray(b)
    <3>1. ethernet_in(b, f)
      BY <1>2, <2>2 DEF driver_recv
    <3>2. b \in Bufs({f.src}) /\ EthLen <= b.len /\ b.data = rxbuf.data /\ b.len = Length(f)
      BY <1>1, LengthsAssumption DEF Bufs, Length
    <3> HIDE DEF b
    <3>3. Quotes(f)
      BY <1>1, <1>2, <3>1, <3>2, ArrivalsStated, EthernetInQuotes
    <3> QED BY <1>1, <2>1, <3>3 DEF Quotes, QuoteInv, ReportsQuotePacket, Fresh
  <2>3. CASE ~InArray(b)
    <3>1. out' = Nothing
      BY <1>2, <2>3 DEF driver_recv
    <3> QED BY <2>1, <3>1 DEF QuoteInv, ReportsQuotePacket, Fresh, Nothing
  <2> QED BY <2>2, <2>3
<1>3. CASE UNCHANGED <<rxbuf, polled>> /\ out' = Nothing
  BY <1>1, <1>3 DEF QuoteInv, ReportsQuotePacket, Fresh, Nothing
<1> QED BY <1>2, <1>3 DEF net_poll

\* Nothing else reports anything.
LEMMA OthersQuote ==
  ASSUME Inv, SumInv, QuoteInv,
         driver_open \/ net_init \/ ping_req \/ Tick
           \/ \E port \in Ports : udp_open(port) \/ udp_close(port)
  PROVE  QuoteInv'
<1>1. CASE driver_open
  <2>1. pc' \in {"failed", "init"} /\ out' = out /\ out = Nothing
    BY <1>1 DEF driver_open, shown, SumInv
  <2> QED BY <2>1 DEF QuoteInv, ReportsQuotePacket, Nothing
<1>2. CASE net_init
  <2>1. rxbuf.data = 0 /\ rxbuf' = buf_init(rxbuf, FrameMax) /\ out' = Nothing
    BY <1>2 DEF net_init, shown, SumInv, Inv
  <2>2. rxbuf'.data = Origin - FrameMax
    BY <2>1, LengthsAssumption, OriginInside DEF buf_init
  <2> QED BY <2>1, <2>2, BufAssumption DEF QuoteInv, ReportsQuotePacket, Fresh, Nothing, Origin
<1>3. CASE ping_req
  <2>1. pc = "ping" /\ UNCHANGED <<rxbuf, polled>>
    BY <1>3 DEF ping_req
  <2>2. out'.kind \in {"reply", "none"}
    <3>1. \A dst, seq : icmp_req_out(dst, seq) => out'.kind \in {"reply", "none"}
      BY DEF icmp_req_out, Send, Nothing
    <3>2. \A dst, p : NextRequest(dst, p) \/ Finish(dst, p) => out'.kind \in {"reply", "none"}
      BY <3>1 DEF NextRequest, Finish, Nothing
    <3>3. \A dst, p : LaterCall(dst, p) => out'.kind \in {"reply", "none"}
      BY <3>2 DEF LaterCall, Nothing
    <3>4. \A dst : FirstCall(dst) => out'.kind \in {"reply", "none"}
      BY <3>1 DEF FirstCall, Nothing
    <3> QED BY <1>3, <3>3, <3>4 DEF ping_req, Nothing
  <2> QED BY <2>1, <2>2 DEF QuoteInv, ReportsQuotePacket, Fresh
<1>4. CASE Tick \/ \E port \in Ports : udp_open(port) \/ udp_close(port)
  <2>1. pc' = pc /\ UNCHANGED <<rxbuf, polled>> /\ out' = Nothing
    BY <1>4 DEF Tick, udp_open, udp_close
  <2> QED BY <2>1 DEF QuoteInv, ReportsQuotePacket, Fresh, Nothing
<1> QED BY <1>1, <1>2, <1>3, <1>4

\* What icmp_unreachable quotes is the packet, for any lengths and any history of the
\* buffer: for a closed port as long as the IP header has no options, for an unknown
\* protocol with the first frame, before the buffer has left buf_init's place.
THEOREM PacketQuoted == Spec => []ReportsQuotePacket
<1>1. Init => QuoteInv
  BY DEF Init, QuoteInv, ReportsQuotePacket, Nothing
<1>2. Inv /\ SumInv /\ QuoteInv /\ [Next]_vars => QuoteInv'
  <2> SUFFICES ASSUME Inv, SumInv, QuoteInv, [Next]_vars PROVE QuoteInv'
    OBVIOUS
  <2>1. CASE UNCHANGED vars
    BY <2>1 DEF vars, shown, QuoteInv, ReportsQuotePacket, Fresh
  <2> QED BY <2>1, PollQuotes, OthersQuote DEF Next
<1>3. QuoteInv => ReportsQuotePacket BY DEF QuoteInv
<1> QED BY <1>1, <1>2, <1>3, Invariance, SumInvariance, PTL DEF Spec

-----------------------------------------------------------------------------
(* What the clients of a map see of an operation *)

\* A key reads the same in w as in m.
Same(m, w, k) ==
  /\ MapHas(w, k, 1) <=> MapHas(m, k, 1)
  /\ MapHas(m, k, 1) => MapGet(w, k, 1) = MapGet(m, k, 1)

\* w is well formed and like m, but for what k reads, which is v.
Put(K, V, m, w, k, v) ==
  /\ MapInv(w, K, V, 1) /\ w.max = m.max /\ w.timeout = m.timeout
  /\ MapHas(w, k, 1) => MapGet(w, k, 1) = v
  /\ \A q \in K \ {k} : Same(m, w, q)

LEMMA SetPuts ==
  ASSUME NEW K, NEW V, NEW m, MapInv(m, K, V, 1), NEW k \in K, NEW v \in V,
         NEW w, AfterSet(m, k, v, 1, w)
  PROVE  /\ Put(K, V, m, w, k, v)
         /\ ~ MapRefuses(m, k, 1) => MapHas(w, k, 1)
<1>1. /\ Kept(K, V, m, w, 1)
      /\ ~ MapRefuses(m, k, 1) => Stores(w, k, Entry(k, v, 1), 1)
      /\ Others(K, {k}, m, w, 1)
  BY MapSetEffect
<1>2. MapHas(w, k, 1) => SlotOf(w, k, 1) = Entry(k, v, 1)
  BY SetShows
<1>3. MapHas(w, k, 1) => MapGet(w, k, 1) = v
  BY <1>2 DEF SlotOf, MapGet, Entry
<1>4. \A q \in K \ {k} : Same(m, w, q)
  BY <1>1 DEF Others, SameFor, Same, MapGet
<1> QED BY <1>1, <1>3, <1>4 DEF Kept, Put, Stores

LEMMA RevisePuts ==
  ASSUME NEW K, NEW V, NEW m, MapInv(m, K, V, 1), NEW k \in K, NEW v \in V, MapHas(m, k, 1),
         NEW w, AfterRevise(m, k, v, 1, w)
  PROVE  Put(K, V, m, w, k, v) /\ MapHas(w, k, 1) /\ MapGet(w, k, 1) = v
<1>1. /\ Kept(K, V, m, w, 1)
      /\ Stores(w, k, Entry(k, v, m.slots[Least(Where(m, k, 1))].time), 1)
      /\ Others(K, {k}, m, w, 1)
  BY MapReviseEffect
<1>2. MapHas(w, k, 1) /\ MapGet(w, k, 1) = v
  BY <1>1 DEF Stores, MapGet, Entry
<1>3. \A q \in K \ {k} : Same(m, w, q)
  BY <1>1 DEF Others, SameFor, Same, MapGet
<1> QED BY <1>1, <1>2, <1>3 DEF Kept, Put

LEMMA GetTyped ==
  ASSUME NEW K, NEW V, NEW m, MapInv(m, K, V, 1), NEW k, MapHas(m, k, 1)
  PROVE  MapGet(m, k, 1) \in V
<1>1. PICK s : s = SlotOf(m, k, 1)
  OBVIOUS
<1>2. s.val \in V
  <2>1. MapTyped(m, K, V, 1) /\ 1 \in Nat \ {0}
    BY DEF MapInv
  <2> QED BY <1>1, <2>1, SlotFilled
<1> QED BY <1>1, <1>2 DEF SlotOf, MapGet

\* A map without life time that has room for every key of K takes all of them.
LEMMA RoomForAll ==
  ASSUME NEW n \in Nat, NEW V, NEW m, MapInv(m, 1..n, V, 1), m.timeout = 0, m.max = n,
         NEW k \in 1..n
  PROVE  ~ MapRefuses(m, k, 1)
<1> SUFFICES ASSUME MapRefuses(m, k, 1) PROVE FALSE
  OBVIOUS
<1>1. MapTyped(m, 1..n, V, 1) /\ MapUnique(m, 1) /\ MapCounted(m, 1)
  BY DEF MapInv
<1>2. IsFiniteSet(Live(m, 1)) /\ Cardinality(Live(m, 1)) \in Nat
  BY LiveFinite
<1>3. m.size = Cardinality(Live(m, 1))
  BY <1>1, <1>2 DEF MapCounted, MapDrift, MapTyped
<1>4. 1..n \in SUBSET Nat /\ IsFiniteSet(1..n) /\ Cardinality(1..n) = n
  <2>1. 1 \in Int /\ n \in Int
    OBVIOUS
  <2>2. IsFiniteSet(1..n) /\ Cardinality(1..n) = IF 1 > n THEN 0 ELSE n - 1 + 1
    BY <2>1, FS_Interval, Zenon
  <2> QED BY <2>2
<1>5. Cardinality(Live(m, 1)) = n
  <2>1. CASE m.size = m.max
    BY <2>1, <1>3
  <2>2. CASE Free(m, 1) = {}
    <3>1. Live(m, 1) = 0..(n - 1)
      BY <2>2 DEF Live, Free
    <3>2. PICK j : j = n - 1
      OBVIOUS
    <3>3. 0 \in Int /\ j \in Int
      BY <3>2
    <3>4. Cardinality(0..j) = IF 0 > j THEN 0 ELSE j - 0 + 1
      BY <3>3, FS_Interval, Zenon
    <3> QED BY <3>1, <3>2, <3>4
  <2> QED BY <2>1, <2>2 DEF MapRefuses
<1>6. IsFiniteSet((1..n) \ {k}) /\ Cardinality((1..n) \ {k}) = n - 1
  BY <1>4, FS_RemoveElement
<1> DEFINE f == [i \in Live(m, 1) |-> m.slots[i].key]
<1>7. \A i \in Live(m, 1) : m.slots[i].key \in (1..n) \ {k}
  <2> SUFFICES ASSUME NEW i \in Live(m, 1) PROVE m.slots[i].key \in (1..n) \ {k}
    OBVIOUS
  <2>1. i \in 0..(m.max - 1) /\ m.slots[i].time # 0
    BY DEF Live, Valid
  <2>2. m.slots[i] \in {Vacant} \cup [key : 1..n, val : V, time : 1..1]
    BY <1>1, <2>1 DEF MapTyped
  <2>3. m.slots[i].key \in 1..n
    BY <2>1, <2>2 DEF Vacant
  <2>4. m.slots[i].key # k
    BY DEF MapRefuses, MapHas, Where
  <2> QED BY <2>3, <2>4
<1>8. PICK S, T : S = Live(m, 1) /\ T = (1..n) \ {k}
  OBVIOUS
<1>9. f \in [S -> T]
  BY <1>7, <1>8
<1>10. IsFiniteSet(S) /\ IsFiniteSet(T) /\ Cardinality(T) < Cardinality(S)
  BY <1>2, <1>5, <1>6, <1>8
<1>11. PICK x, y \in S : x # y /\ f[x] = f[y]
  <2> HIDE DEF f
  <2> QED BY <1>9, <1>10, FS_PigeonHole
<1> QED BY <1>1, <1>8, <1>11 DEF MapUnique

\* A tick changes no more than the values: w has the slots of m, stamped and
\* keyed as before.
Aged(m, w) ==
  /\ w = [slots |-> w.slots, size |-> m.size, max |-> m.max, timeout |-> m.timeout]
  /\ DOMAIN w.slots = 0..(m.max - 1)
  /\ \A i \in 0..(m.max - 1) :
       \/ m.slots[i] = Vacant /\ w.slots[i] = Vacant
       \/ m.slots[i] # Vacant /\ w.slots[i].time = m.slots[i].time /\ w.slots[i].key = m.slots[i].key

LEMMA AgedShows ==
  ASSUME NEW K, NEW V, NEW m, MapInv(m, K, V, 1), NEW w, Aged(m, w),
         w.slots \in [0..(m.max - 1) -> {Vacant} \cup [key : K, val : V, time : 1..1]]
  PROVE  /\ MapInv(w, K, V, 1) /\ w.max = m.max /\ w.timeout = m.timeout
         /\ \A k : MapHas(w, k, 1) <=> MapHas(m, k, 1)
         /\ \A k : MapHas(m, k, 1) =>
              \E i \in 0..(m.max - 1) :
                /\ m.slots[i] # Vacant
                /\ MapGet(m, k, 1) = m.slots[i].val /\ MapGet(w, k, 1) = w.slots[i].val
<1>1. MapTyped(m, K, V, 1) /\ MapUnique(m, 1) /\ MapCounted(m, 1)
  BY DEF MapInv
<1>2. w.size = m.size /\ w.max = m.max /\ w.timeout = m.timeout
  BY DEF Aged
<1>3. MapTyped(w, K, V, 1)
  BY <1>1, <1>2 DEF MapTyped, Aged
<1>4. \A i \in 0..(m.max - 1) : Valid(w, i, 1) <=> Valid(m, i, 1)
  BY <1>2 DEF Valid, Aged
<1>5. Live(w, 1) = Live(m, 1)
  BY <1>2, <1>4 DEF Live
<1>6. \A i \in Live(m, 1) : i \in 0..(m.max - 1) /\ m.slots[i] # Vacant /\ w.slots[i].key = m.slots[i].key
  BY DEF Aged, Live, Valid, Vacant
<1>7. MapUnique(w, 1)
  BY <1>1, <1>5, <1>6 DEF MapUnique
<1>8. MapCounted(w, 1)
  BY <1>1, <1>2, <1>5 DEF MapCounted, MapDrift
<1>9. \A k : Where(w, k, 1) = Where(m, k, 1)
  BY <1>5, <1>6 DEF Where
<1>10. ASSUME NEW k, MapHas(m, k, 1)
       PROVE  \E i \in 0..(m.max - 1) :
                /\ m.slots[i] # Vacant
                /\ MapGet(m, k, 1) = m.slots[i].val /\ MapGet(w, k, 1) = w.slots[i].val
  <2>1. PICK i : i = Least(Where(m, k, 1))
    OBVIOUS
  <2>2. i \in Live(m, 1)
    BY <1>10, <2>1, HasSlot
  <2>3. MapGet(m, k, 1) = m.slots[i].val /\ MapGet(w, k, 1) = w.slots[i].val
    BY <2>1, <1>9 DEF MapGet
  <2> QED BY <1>6, <2>2, <2>3
<1> QED BY <1>2, <1>3, <1>7, <1>8, <1>9, <1>10 DEF MapInv, MapHas

-----------------------------------------------------------------------------
(* icmp.c: the records of a ping *)

Hosts == {Targets[t] : t \in DOMAIN Targets}
PingRecords ==
  [ping_time : 0..PingTestTime, wait : BOOLEAN, success_time : Nat, shortest_time : Nat,
   longest_time : Nat, sum_time : Nat, is_finished : BOOLEAN]
RequestRecords == [dst_ip : Hosts, age : 0..Long, got : -1..Long]

\* The first n requests of target t that were answered while awaited.
Answered(g, t, n) == {s \in 1..n : <<t, s>> \in g}
Checked(p) == IF p.is_finished THEN PingTestTime ELSE p.ping_time - 1

InRange(p) ==
  /\ p.shortest_time * p.success_time <= p.sum_time
  /\ p.sum_time <= p.longest_time * p.success_time

\* The record p of target t counts the answers of g, and those to requests it
\* has numbered only.
RecordOK(t, p, g) ==
  /\ p \in PingRecords
  /\ \A s : <<t, s>> \in g => s \in 1..p.ping_time
  /\ p.success_time = Cardinality(Answered(g, t, Checked(p)))
  /\ InRange(p)

\* One reply more: the times printed stay around their average.
LEMMA InRangeMore ==
  ASSUME NEW a \in Nat, NEW n \in Nat, NEW s \in Nat, NEW b \in Nat, NEW r \in Nat,
         a * n <= s, s <= b * n,
         NEW c, c = IF r < a THEN r ELSE a, NEW d, d = IF r > b THEN r ELSE b
  PROVE  /\ c \in Nat /\ d \in Nat
         /\ c * (n + 1) <= s + r /\ s + r <= d * (n + 1)
<1>1. c \in Nat /\ d \in Nat /\ c <= a /\ c <= r /\ b <= d /\ r <= d
  OBVIOUS
<1>2. PICK i \in Nat, j \in Nat : a = c + i /\ d = b + j
  <2>1. a - c \in Nat /\ d - b \in Nat /\ a = c + (a - c) /\ d = b + (d - b)
    BY <1>1
  <2> QED BY <2>1
<1>3. a * n = c * n + i * n /\ d * n = b * n + j * n
  BY <1>1, <1>2
<1>4. c * (n + 1) = c * n + c /\ d * (n + 1) = d * n + d
  BY <1>1
<1>5. /\ a * n \in Nat /\ b * n \in Nat /\ c * n \in Nat /\ d * n \in Nat
      /\ i * n \in Nat /\ j * n \in Nat
  BY <1>1, <1>2
<1>6. PICK x1 \in Nat, x2 \in Nat, x3 \in Nat, x4 \in Nat, x5 \in Nat, x6 \in Nat :
        x1 = a * n /\ x2 = b * n /\ x3 = c * n /\ x4 = d * n /\ x5 = i * n /\ x6 = j * n
  BY <1>5, Zenon
<1>7. x1 <= s /\ s <= x2 /\ x1 = x3 + x5 /\ x4 = x2 + x6
  BY <1>3, <1>6
<1>8. x3 + c <= s + r /\ s + r <= x4 + d
  BY ONLY <1>1, <1>7, s \in Nat, r \in Nat, x1 \in Nat, x2 \in Nat, x3 \in Nat, x4 \in Nat,
          x5 \in Nat, x6 \in Nat
<1> QED BY <1>1, <1>4, <1>6, <1>8

LEMMA AnsweredCount ==
  ASSUME NEW g, NEW t, NEW n \in Nat
  PROVE  /\ Answered(g, t, 0) = {} /\ Answered(g, t, -1) = {}
         /\ Cardinality(Answered(g, t, n)) \in Nat
         /\ Cardinality(Answered(g, t, n + 1)) =
              IF <<t, n + 1>> \in g THEN Cardinality(Answered(g, t, n)) + 1
              ELSE Cardinality(Answered(g, t, n))
<1>1. IsFiniteSet(1..n)
  <2>1. 1 \in Int /\ n \in Int
    OBVIOUS
  <2> QED BY <2>1, FS_Interval, Zenon
<1>2. Answered(g, t, n) \in SUBSET (1..n)
  BY DEF Answered
<1>3. IsFiniteSet(Answered(g, t, n))
  BY <1>1, <1>2, FS_Subset
<1>4. Answered(g, t, n + 1) = IF <<t, n + 1>> \in g THEN Answered(g, t, n) \cup {n + 1} ELSE Answered(g, t, n)
  BY DEF Answered
<1>5. n + 1 \notin Answered(g, t, n)
  BY DEF Answered
<1>6. Cardinality(Answered(g, t, n) \cup {n + 1}) = Cardinality(Answered(g, t, n)) + 1
  BY <1>3, <1>5, FS_AddElement
<1>7. Cardinality(Answered(g, t, n)) \in Nat
  BY <1>3, FS_CardinalityType
<1>8. Answered(g, t, 0) = {} /\ Answered(g, t, -1) = {}
  BY DEF Answered
<1> QED BY <1>4, <1>6, <1>7, <1>8

\* ping_req_check counts the request that is out, if it was answered.
LEMMA CheckCounts ==
  ASSUME NEW t, NEW g, NEW p, RecordOK(t, p, g), ~p.is_finished, NEW r,
         p.ping_time # 0 => r \in RequestRecords /\ (r.got # NoReply <=> <<t, p.ping_time>> \in g),
         NEW q, q = IF p.ping_time = 0 THEN p ELSE ping_req_check(p, r)
  PROVE  /\ q \in PingRecords /\ q.ping_time = p.ping_time /\ q.wait = p.wait /\ ~q.is_finished
         /\ q.success_time = Cardinality(Answered(g, t, p.ping_time))
         /\ InRange(q)
<1>1. p \in PingRecords /\ InRange(p) /\ p.success_time = Cardinality(Answered(g, t, p.ping_time - 1))
  BY DEF RecordOK, Checked
<1>2. CASE p.ping_time = 0
  <2>1. Answered(g, t, 0) = Answered(g, t, -1)
    BY DEF Answered
  <2>2. p.ping_time - 1 = -1
    BY <1>2
  <2>3. p.success_time = Cardinality(Answered(g, t, 0))
    BY <1>1, <2>1, <2>2
  <2> QED BY <1>1, <1>2, <2>3
<1>3. CASE p.ping_time # 0 /\ r.got = NoReply
  <2>1. q = p
    BY <1>3 DEF ping_req_check
  <2>2. PICK n \in Nat : n + 1 = p.ping_time
    <3>1. p.ping_time - 1 \in Nat /\ (p.ping_time - 1) + 1 = p.ping_time
      BY <1>1, <1>3 DEF PingRecords
    <3> QED BY <3>1
  <2>3. p.ping_time - 1 = n /\ <<t, n + 1>> \notin g
    BY <1>3, <2>2
  <2>4. Cardinality(Answered(g, t, n + 1)) = Cardinality(Answered(g, t, n))
    BY <2>3, AnsweredCount
  <2> QED BY <1>1, <2>1, <2>2, <2>3, <2>4
<1>4. CASE p.ping_time # 0 /\ r.got # NoReply
  <2>1. PICK a \in Nat, m \in Nat, s \in Nat, b \in Nat, k \in Nat :
          /\ a = p.shortest_time /\ m = p.success_time /\ s = p.sum_time /\ b = p.longest_time
          /\ k = r.got
    <3>1. r.got \in Nat
      BY <1>4 DEF RequestRecords, NoReply
    <3>2. p.shortest_time \in Nat /\ p.success_time \in Nat /\ p.sum_time \in Nat /\ p.longest_time \in Nat
      BY <1>1 DEF PingRecords
    <3> QED BY <3>1, <3>2, Zenon
  <2>2. PICK c, d : c = (IF k < a THEN k ELSE a) /\ d = (IF k > b THEN k ELSE b)
    OBVIOUS
  <2>3. q = [p EXCEPT !.shortest_time = c, !.longest_time = d, !.sum_time = s + k, !.success_time = m + 1]
    BY <1>1, <1>4, <2>1, <2>2 DEF ping_req_check, PingRecords
  <2>4. a * m <= s /\ s <= b * m
    BY <1>1, <2>1 DEF InRange
  <2>5. /\ c \in Nat /\ d \in Nat
        /\ c * (m + 1) <= s + k /\ s + k <= d * (m + 1)
    BY <2>2, <2>4, InRangeMore
  <2>6. /\ q \in PingRecords /\ q.ping_time = p.ping_time /\ q.wait = p.wait /\ ~q.is_finished
        /\ q.shortest_time = c /\ q.longest_time = d /\ q.sum_time = s + k /\ q.success_time = m + 1
    <3>1. /\ p \in PingRecords /\ m + 1 \in Nat /\ s + k \in Nat
          /\ c \in Nat /\ d \in Nat
      BY <1>1, <2>5
    <3>2. PICK u \in Nat, v \in Nat : u = m + 1 /\ v = s + k
      BY <3>1
    <3>3. q = [p EXCEPT !.shortest_time = c, !.longest_time = d, !.sum_time = v, !.success_time = u]
      BY <2>3, <3>2
    <3>4. q \in PingRecords
      BY ONLY <3>1, <3>3, u \in Nat, v \in Nat DEF PingRecords
    <3>5. /\ q.ping_time = p.ping_time /\ q.wait = p.wait /\ q.is_finished = p.is_finished
          /\ q.shortest_time = c /\ q.longest_time = d /\ q.sum_time = v /\ q.success_time = u
      BY ONLY <3>1, <3>3 DEF PingRecords
    <3> QED BY <3>2, <3>4, <3>5
  <2>7. InRange(q)
    BY <2>5, <2>6 DEF InRange
  <2>8. PICK n \in Nat : n + 1 = p.ping_time
    <3>1. p.ping_time - 1 \in Nat /\ (p.ping_time - 1) + 1 = p.ping_time
      BY <1>1, <1>4 DEF PingRecords
    <3> QED BY <3>1
  <2>9. p.ping_time - 1 = n /\ <<t, n + 1>> \in g
    BY <1>4, <2>8
  <2>10. Cardinality(Answered(g, t, n + 1)) = Cardinality(Answered(g, t, n)) + 1
    BY <2>9, AnsweredCount
  <2> QED BY <1>1, <2>1, <2>6, <2>7, <2>8, <2>9, <2>10
<1> QED BY <1>2, <1>3, <1>4

\* The record that NextRequest and Finish make of the one just checked.
NextTime(p) == p.ping_time + 1
NextOf(p) == [p EXCEPT !.ping_time = p.ping_time + 1, !.wait = FALSE]

LEMMA NextRecord ==
  ASSUME NEW t, NEW g, NEW q \in PingRecords, ~q.is_finished, InRange(q),
         q.success_time = Cardinality(Answered(g, t, q.ping_time)),
         \A s : <<t, s>> \in g => s \in 1..q.ping_time,
         q.ping_time # PingTestTime,
         NEW n, n = NextOf(q)
  PROVE  RecordOK(t, n, g) /\ n.ping_time = NextTime(q) /\ ~n.is_finished
<1>0. PingTestTime \in Nat
  BY PingAssumption
<1>1. /\ n \in PingRecords /\ n.ping_time = q.ping_time + 1 /\ ~n.is_finished
      /\ n.success_time = q.success_time /\ n.shortest_time = q.shortest_time
      /\ n.longest_time = q.longest_time /\ n.sum_time = q.sum_time
      /\ q.ping_time \in Nat
  <2>1. PICK k \in 0..PingTestTime : k = q.ping_time + 1
    BY <1>0 DEF PingRecords
  <2>2. n = [q EXCEPT !.ping_time = k, !.wait = FALSE]
    BY <2>1 DEF NextOf
  <2>3. n \in PingRecords
    BY ONLY <2>2, q \in PingRecords, k \in 0..PingTestTime DEF PingRecords
  <2>4. /\ n.ping_time = k /\ n.is_finished = q.is_finished
        /\ n.success_time = q.success_time /\ n.shortest_time = q.shortest_time
        /\ n.longest_time = q.longest_time /\ n.sum_time = q.sum_time
    BY ONLY <2>2, q \in PingRecords DEF PingRecords
  <2>5. q.ping_time \in Nat
    BY <1>0 DEF PingRecords
  <2> QED BY <2>1, <2>3, <2>4, <2>5
<1>2. Checked(n) = q.ping_time
  BY <1>1 DEF Checked
<1>3. \A s : <<t, s>> \in g => s \in 1..n.ping_time
  BY <1>1
<1>4. InRange(n)
  BY <1>1 DEF InRange
<1> QED BY <1>1, <1>2, <1>3, <1>4 DEF RecordOK, NextTime

LEMMA FinishedRecord ==
  ASSUME NEW t, NEW g, NEW q \in PingRecords, InRange(q),
         q.success_time = Cardinality(Answered(g, t, q.ping_time)),
         \A s : <<t, s>> \in g => s \in 1..q.ping_time,
         q.ping_time = PingTestTime,
         NEW n, n = [q EXCEPT !.is_finished = TRUE]
  PROVE  RecordOK(t, n, g) /\ n.ping_time = q.ping_time /\ n.is_finished
<1>1. /\ n \in PingRecords /\ n.ping_time = q.ping_time /\ n.is_finished
      /\ n.success_time = q.success_time /\ n.shortest_time = q.shortest_time
      /\ n.longest_time = q.longest_time /\ n.sum_time = q.sum_time
  BY DEF PingRecords
<1>2. Checked(n) = q.ping_time
  BY <1>1 DEF Checked
<1>3. InRange(n)
  BY <1>1 DEF InRange
<1> QED BY <1>1, <1>2, <1>3 DEF RecordOK

\* A ping begins with nothing counted.
LEMMA FirstRecord ==
  ASSUME NEW t, NEW g, \A s : <<t, s>> \notin g
  PROVE  RecordOK(t, NewPing, g)
<1>1. PingTestTime \in Nat /\ ShortestInit \in Nat
  BY PingAssumption
<1>2. NewPing \in PingRecords /\ Checked(NewPing) = -1 /\ NewPing.success_time = 0
  BY <1>1 DEF NewPing, PingRecords, Checked
<1>3. InRange(NewPing)
  BY <1>1 DEF InRange, NewPing
<1>4. Answered(g, t, -1) = {}
  BY <1>1, AnsweredCount
<1>5. Cardinality({}) = 0
  BY FS_EmptySet
<1> QED BY <1>2, <1>3, <1>4, <1>5 DEF RecordOK

-----------------------------------------------------------------------------
(* icmp.c: the two maps of ping *)

\* What holds of target t when tg is the one being pinged, g the requests that
\* were answered while awaited: its record counts them, it is finished if others
\* follow it, the request it is at is recorded, and that one is marked as
\* answered just if it was.
PingAt(mp, mr, tg, g, t) ==
  LET has == MapHas(mp, Targets[t], 1)
      p == MapGet(mp, Targets[t], 1)
  IN  /\ has => t <= tg /\ RecordOK(t, p, g)
      /\ has /\ t < tg => p.is_finished
      /\ has /\ p.ping_time > 0 => MapHas(mr, p.ping_time, 1)
      /\ has /\ t = tg /\ ~p.is_finished /\ p.ping_time > 0 =>
           (MapGet(mr, p.ping_time, 1).got # NoReply <=> <<t, p.ping_time>> \in g)
      /\ ~has => \A s : <<t, s>> \notin g

RequestsOK(mr) ==
  /\ MapInv(mr, 1..PingTestTime, RequestRecords, 1)
  /\ mr.timeout = 0 /\ mr.max = PingTestTime
OnWire(mr, w) == \A x \in w : x.seq \in 1..PingTestTime /\ MapHas(mr, x.seq, 1)

PingOK(mp, mr, tg, g, w) ==
  /\ MapInv(mp, Hosts, PingRecords, 1) /\ RequestsOK(mr) /\ OnWire(mr, w)
  /\ tg \in 1..(Len(Targets) + 1)
  /\ g \subseteq (DOMAIN Targets) \X (1..PingTestTime)
  /\ \A t \in DOMAIN Targets : PingAt(mp, mr, tg, g, t)

LEMMA TargetFacts ==
  /\ Len(Targets) \in Nat /\ DOMAIN Targets = 1..Len(Targets)
  /\ \A t \in DOMAIN Targets : Targets[t] \in Hosts
  /\ \A t, u \in DOMAIN Targets : t # u => Targets[t] # Targets[u]
BY PingsAssumption DEF Hosts

\* Recording a request: there is always room for it.
LEMMA RequestPuts ==
  ASSUME NEW mr, RequestsOK(mr), NEW dst \in Hosts, NEW seq \in 1..PingTestTime,
         NEW w, w = RequestRecorded(mr, dst, seq)
  PROVE  /\ RequestsOK(w)
         /\ MapHas(w, seq, 1) /\ MapGet(w, seq, 1).got = NoReply
         /\ \A q \in (1..PingTestTime) \ {seq} : Same(mr, w, q)
<1>1. PICK K, V, v : K = 1..PingTestTime /\ V = RequestRecords /\ v = NewRequest(dst)
  OBVIOUS
<1>2. v \in V /\ v.got = NoReply
  BY <1>1, PingAssumption DEF NewRequest, RequestRecords, NoReply
<1>3. AfterSet(mr, seq, v, 1, w)
  BY <1>1 DEF AfterSet, RequestRecorded, Stamp
<1>4. MapInv(mr, K, V, 1) /\ seq \in K
  BY <1>1 DEF RequestsOK
<1>5. ~ MapRefuses(mr, seq, 1)
  BY PingAssumption, RoomForAll DEF RequestsOK
<1>6. Put(K, V, mr, w, seq, v) /\ MapHas(w, seq, 1)
  BY <1>2, <1>3, <1>4, <1>5, SetPuts
<1> QED BY <1>1, <1>2, <1>6 DEF Put, RequestsOK

\* A reply: the request it is for is marked, with its age.
LEMMA ReplyPuts ==
  ASSUME NEW mr, RequestsOK(mr), NEW seq \in 1..PingTestTime, MapHas(mr, seq, 1),
         NEW w, w = ReplyRecorded(mr, seq)
  PROVE  /\ RequestsOK(w)
         /\ MapHas(w, seq, 1) /\ MapGet(w, seq, 1).got # NoReply
         /\ \A q \in (1..PingTestTime) \ {seq} : Same(mr, w, q)
<1>1. PICK K, V : K = 1..PingTestTime /\ V = RequestRecords
  OBVIOUS
<1>2. MapInv(mr, K, V, 1) /\ seq \in K
  BY <1>1 DEF RequestsOK
<1>3. PICK r : r = MapGet(mr, seq, 1)
  OBVIOUS
<1>4. r \in V
  BY <1>2, <1>3, GetTyped
<1>5. PICK v : v = [r EXCEPT !.got = r.age]
  OBVIOUS
<1>6. v \in V /\ v.got # NoReply
  BY <1>1, <1>4, <1>5, PingAssumption DEF RequestRecords, NoReply
<1>7. AfterRevise(mr, seq, v, 1, w)
  BY <1>3, <1>5 DEF AfterRevise, ReplyRecorded, Stamp
<1>8. Put(K, V, mr, w, seq, v) /\ MapHas(w, seq, 1) /\ MapGet(w, seq, 1) = v
  BY <1>2, <1>6, <1>7, RevisePuts
<1> QED BY <1>1, <1>6, <1>8 DEF Put, RequestsOK

\* An answer that is counted is one to the request that is out.
LEMMA ReplyKeeps ==
  ASSUME NEW mp, NEW mr, NEW tg, NEW g, NEW w, PingOK(mp, mr, tg, g, w),
         NEW seq \in 1..PingTestTime, MapHas(mr, seq, 1),
         NEW mr2, mr2 = ReplyRecorded(mr, seq),
         NEW g2,
         g2 = IF /\ tg <= Len(Targets) /\ MapHas(mp, Targets[tg], 1)
                 /\ MapGet(mp, Targets[tg], 1).ping_time = seq
                 /\ ~MapGet(mp, Targets[tg], 1).is_finished
              THEN g \cup {<<tg, seq>>} ELSE g
  PROVE  PingOK(mp, mr2, tg, g2, w)
<1>0. /\ MapInv(mp, Hosts, PingRecords, 1) /\ RequestsOK(mr) /\ OnWire(mr, w)
      /\ tg \in 1..(Len(Targets) + 1)
      /\ g \subseteq (DOMAIN Targets) \X (1..PingTestTime)
      /\ \A t \in DOMAIN Targets : PingAt(mp, mr, tg, g, t)
  BY DEF PingOK
<1>1. /\ RequestsOK(mr2)
      /\ MapHas(mr2, seq, 1) /\ MapGet(mr2, seq, 1).got # NoReply
      /\ \A q \in (1..PingTestTime) \ {seq} : Same(mr, mr2, q)
  BY <1>0, ReplyPuts
<1>2. \A q \in 1..PingTestTime : MapHas(mr, q, 1) => MapHas(mr2, q, 1)
  BY <1>1 DEF Same
<1>3. OnWire(mr2, w)
  BY <1>0, <1>2 DEF OnWire
<1>4. g2 \subseteq (DOMAIN Targets) \X (1..PingTestTime)
  BY <1>0, TargetFacts
<1>5. ASSUME NEW t \in DOMAIN Targets PROVE PingAt(mp, mr2, tg, g2, t)
  <2>1. PICK p : p = MapGet(mp, Targets[t], 1)
    OBVIOUS
  <2>2. PingAt(mp, mr, tg, g, t)
    BY <1>0
  <2>3. CASE ~MapHas(mp, Targets[t], 1)
    <3>1. \A s : <<t, s>> \notin g
      BY <2>2, <2>3 DEF PingAt
    <3>2. \A s : <<t, s>> \notin g2
      BY <2>3, <3>1
    <3> QED BY <2>3, <3>2 DEF PingAt
  <2>4. CASE MapHas(mp, Targets[t], 1)
    <3>1. /\ t <= tg /\ RecordOK(t, p, g) /\ (t < tg => p.is_finished)
          /\ p.ping_time > 0 => MapHas(mr, p.ping_time, 1)
          /\ t = tg /\ ~p.is_finished /\ p.ping_time > 0 =>
               (MapGet(mr, p.ping_time, 1).got # NoReply <=> <<t, p.ping_time>> \in g)
      BY <2>1, <2>2, <2>4 DEF PingAt
    <3>2. p \in PingRecords /\ p.ping_time \in 0..PingTestTime
      BY <3>1 DEF RecordOK, PingRecords
    <3>3. p.ping_time > 0 => MapHas(mr2, p.ping_time, 1)
      BY <1>2, <3>1, <3>2, PingAssumption
    <3>4. CASE t = tg /\ p.ping_time = seq /\ ~p.is_finished
      <4>1. g2 = g \cup {<<t, seq>>}
        BY <2>1, <2>4, <3>4, TargetFacts
      <4>2. \A s : <<t, s>> \in g2 => s \in 1..p.ping_time
        BY <3>1, <3>4, <4>1 DEF RecordOK
      <4>3. Checked(p) = seq - 1
        BY <3>4 DEF Checked
      <4>4. Answered(g2, t, seq - 1) = Answered(g, t, seq - 1)
        BY <4>1, PingAssumption DEF Answered
      <4>5. RecordOK(t, p, g2)
        BY <3>1, <4>2, <4>3, <4>4 DEF RecordOK
      <4> QED BY <1>1, <2>1, <2>4, <3>1, <3>3, <3>4, <4>1, <4>5 DEF PingAt
    <3>5. CASE ~(t = tg /\ p.ping_time = seq /\ ~p.is_finished)
      <4>1. \A s : <<t, s>> \in g2 <=> <<t, s>> \in g
        BY <2>1, <3>5, <1>0
      <4>2. \A n : Answered(g2, t, n) = Answered(g, t, n)
        BY <4>1 DEF Answered
      <4>3. RecordOK(t, p, g2)
        BY <3>1, <4>1, <4>2 DEF RecordOK
      <4>4. t = tg /\ ~p.is_finished /\ p.ping_time > 0 =>
               (MapGet(mr2, p.ping_time, 1).got # NoReply <=> <<t, p.ping_time>> \in g2)
        <5> SUFFICES ASSUME t = tg, ~p.is_finished, p.ping_time > 0
                     PROVE  MapGet(mr2, p.ping_time, 1).got # NoReply <=> <<t, p.ping_time>> \in g2
          OBVIOUS
        <5>1. p.ping_time \in (1..PingTestTime) \ {seq}
          BY <3>2, <3>5, PingAssumption
        <5>2. MapGet(mr2, p.ping_time, 1) = MapGet(mr, p.ping_time, 1)
          BY <1>1, <3>1, <5>1 DEF Same
        <5> QED BY <3>1, <4>1, <5>2
      <4> QED BY <2>1, <2>4, <3>1, <3>3, <4>3, <4>4 DEF PingAt
    <3> QED BY <3>4, <3>5
  <2> QED BY <2>3, <2>4
<1> QED BY <1>0, <1>1, <1>3, <1>4, <1>5 DEF PingOK

\* A step that changes the record of the present target, and adds requests.
LEMMA RecordKeeps ==
  ASSUME NEW mp, NEW mr, NEW tg, NEW g, NEW w, PingOK(mp, mr, tg, g, w), tg <= Len(Targets),
         NEW mp2, NEW n, Put(Hosts, PingRecords, mp, mp2, Targets[tg], n),
         NEW mr2, RequestsOK(mr2),
         \A q \in 1..PingTestTime : MapHas(mr, q, 1) => MapHas(mr2, q, 1),
         NEW w2, OnWire(mr2, w2),
         PingAt(mp2, mr2, tg, g, tg)
  PROVE  PingOK(mp2, mr2, tg, g, w2)
<1>0. /\ tg \in 1..(Len(Targets) + 1)
      /\ g \subseteq (DOMAIN Targets) \X (1..PingTestTime)
      /\ \A t \in DOMAIN Targets : PingAt(mp, mr, tg, g, t)
  BY DEF PingOK
<1>1. MapInv(mp2, Hosts, PingRecords, 1)
  BY DEF Put
<1>2. ASSUME NEW t \in DOMAIN Targets, t # tg PROVE PingAt(mp2, mr2, tg, g, t)
  <2>1. tg \in DOMAIN Targets
    BY <1>0, TargetFacts
  <2>2. Targets[t] \in Hosts \ {Targets[tg]}
    BY <1>2, <2>1, TargetFacts
  <2>3. Same(mp, mp2, Targets[t])
    BY <2>2 DEF Put
  <2>4. PingAt(mp, mr, tg, g, t)
    BY <1>0
  <2>5. CASE ~MapHas(mp, Targets[t], 1)
    BY <2>3, <2>4, <2>5 DEF Same, PingAt
  <2>6. CASE MapHas(mp, Targets[t], 1)
    <3>1. PICK p : p = MapGet(mp, Targets[t], 1) /\ p = MapGet(mp2, Targets[t], 1)
      BY <2>3, <2>6 DEF Same
    <3>2. /\ t <= tg /\ RecordOK(t, p, g) /\ (t < tg => p.is_finished)
          /\ p.ping_time > 0 => MapHas(mr, p.ping_time, 1)
      BY <2>4, <2>6, <3>1 DEF PingAt
    <3>3. p.ping_time > 0 => p.ping_time \in 1..PingTestTime
      BY <3>2, PingAssumption DEF RecordOK, PingRecords
    <3>4. MapHas(mp2, Targets[t], 1)
      BY <2>3, <2>6 DEF Same
    <3> QED BY <1>2, <3>1, <3>2, <3>3, <3>4 DEF PingAt
  <2> QED BY <2>5, <2>6
<1> QED BY <1>0, <1>1, <1>2 DEF PingOK

\* The next target's turn.
LEMMA MoveKeeps ==
  ASSUME NEW mp, NEW mr, NEW tg, NEW g, NEW w, PingOK(mp, mr, tg, g, w), tg <= Len(Targets),
         MapHas(mp, Targets[tg], 1), MapGet(mp, Targets[tg], 1).is_finished
  PROVE  PingOK(mp, mr, tg + 1, g, w)
<1>0. /\ tg \in 1..(Len(Targets) + 1)
      /\ \A t \in DOMAIN Targets : PingAt(mp, mr, tg, g, t)
  BY DEF PingOK
<1>1. tg + 1 \in 1..(Len(Targets) + 1)
  BY <1>0, TargetFacts
<1>2. ASSUME NEW t \in DOMAIN Targets PROVE PingAt(mp, mr, tg + 1, g, t)
  <2>1. PingAt(mp, mr, tg, g, t)
    BY <1>0
  <2>2. t \in Nat /\ tg \in Nat
    BY <1>0, TargetFacts
  <2>3. MapHas(mp, Targets[t], 1) => t <= tg
    BY <2>1 DEF PingAt
  <2>4. MapHas(mp, Targets[t], 1) => t # tg + 1 /\ t <= tg + 1 /\ (t < tg + 1 => t < tg \/ t = tg)
    BY <2>2, <2>3
  <2> QED BY <2>1, <2>4 DEF PingAt
<1> QED BY <1>1, <1>2 DEF PingOK

\* The clock: requests grow older, ...
LEMMA OlderAges ==
  ASSUME NEW mr, RequestsOK(mr), NEW w, w = Older(mr)
  PROVE  /\ RequestsOK(w)
         /\ \A k : MapHas(w, k, 1) <=> MapHas(mr, k, 1)
         /\ \A k : MapHas(mr, k, 1) => MapGet(w, k, 1).got = MapGet(mr, k, 1).got
<1>0. PICK K : K = 1..PingTestTime
  OBVIOUS
<1> DEFINE E == [key : K, val : RequestRecords, time : 1..1]
           old(e) == IF e = Vacant \/ e.val.age = Long THEN e ELSE [e EXCEPT !.val.age = @ + 1]
<1>1. /\ MapInv(mr, K, RequestRecords, 1) /\ MapTyped(mr, K, RequestRecords, 1)
      /\ mr.slots \in [0..(mr.max - 1) -> {Vacant} \cup E]
  BY <1>0 DEF RequestsOK, MapInv, MapTyped
<1>2. /\ mr = [slots |-> mr.slots, size |-> mr.size, max |-> mr.max, timeout |-> mr.timeout]
      /\ mr.max = PingTestTime /\ mr.timeout = 0
  BY <1>1 DEF MapTyped, RequestsOK
<1>3. w = [slots |-> [i \in 0..(mr.max - 1) |-> old(mr.slots[i])],
           size |-> mr.size, max |-> mr.max, timeout |-> mr.timeout]
  <2>1. DOMAIN mr.slots = 0..(mr.max - 1)
    BY <1>1
  <2>2. w = [mr EXCEPT !.slots = [i \in DOMAIN mr.slots |-> old(mr.slots[i])]]
    BY DEF Older
  <2>3. w = [mr EXCEPT !.slots = [i \in 0..(mr.max - 1) |-> old(mr.slots[i])]]
    <3> HIDE DEF old
    <3> QED BY <2>1, <2>2
  <2> HIDE DEF old
  <2> QED BY <1>2, <2>3
<1>4. ASSUME NEW e \in E
      PROVE  /\ e # Vacant /\ old(e) \in E
             /\ old(e).key = e.key /\ old(e).time = e.time /\ old(e).val.got = e.val.got
  <2>1. e # Vacant
    <3>1. e.time = 1 /\ Vacant.time = 0
      BY DEF Vacant
    <3> QED BY <3>1
  <2>2. CASE e.val.age = Long
    BY <2>1, <2>2
  <2>3. CASE e.val.age # Long
    <3>1. PICK r : r = e.val
      OBVIOUS
    <3>2. r \in RequestRecords
      BY <3>1
    <3>3. PICK a \in 0..Long : a = r.age + 1
      BY <2>3, <3>1, <3>2, PingAssumption DEF RequestRecords
    <3>4. PICK v : v = [r EXCEPT !.age = a]
      OBVIOUS
    <3>5. v \in RequestRecords /\ v.got = r.got
      BY ONLY <3>2, <3>4, a \in 0..Long DEF RequestRecords
    <3>6. old(e) = [e EXCEPT !.val = v]
      BY <2>1, <2>3, <3>1, <3>3, <3>4
    <3>7. old(e) \in E /\ old(e).key = e.key /\ old(e).time = e.time /\ old(e).val = v
      <4> HIDE DEF old
      <4> QED BY <3>5, <3>6
    <3> QED BY <2>1, <3>1, <3>5, <3>7
  <2> QED BY <2>2, <2>3
<1>5. old(Vacant) = Vacant
  OBVIOUS
<1> HIDE DEF old
<1>6. /\ DOMAIN w.slots = 0..(mr.max - 1)
      /\ \A i \in 0..(mr.max - 1) : w.slots[i] = old(mr.slots[i])
      /\ w = [slots |-> w.slots, size |-> mr.size, max |-> mr.max, timeout |-> mr.timeout]
  BY <1>3
<1>7. ASSUME NEW i \in 0..(mr.max - 1) PROVE w.slots[i] \in {Vacant} \cup E
  <2>1. mr.slots[i] \in {Vacant} \cup E /\ w.slots[i] = old(mr.slots[i])
    BY <1>1, <1>6
  <2>2. CASE mr.slots[i] = Vacant
    BY <1>5, <2>1, <2>2
  <2>3. CASE mr.slots[i] \in E
    BY <1>4, <2>1, <2>3
  <2> QED BY <2>1, <2>2, <2>3
<1>8. w.slots \in [0..(mr.max - 1) -> {Vacant} \cup E]
  <2>1. w.slots = [i \in 0..(mr.max - 1) |-> old(mr.slots[i])]
    BY <1>3
  <2> QED BY <1>6, <1>7, <2>1
<1>9. Aged(mr, w)
  BY <1>1, <1>4, <1>5, <1>6 DEF Aged
<1>10. /\ MapInv(w, K, RequestRecords, 1) /\ w.max = mr.max /\ w.timeout = mr.timeout
       /\ \A k : MapHas(w, k, 1) <=> MapHas(mr, k, 1)
       /\ \A k : MapHas(mr, k, 1) =>
            \E i \in 0..(mr.max - 1) :
              /\ mr.slots[i] # Vacant
              /\ MapGet(mr, k, 1) = mr.slots[i].val /\ MapGet(w, k, 1) = w.slots[i].val
  BY ONLY <1>1, <1>8, <1>9, AgedShows
<1>11. ASSUME NEW k, MapHas(mr, k, 1) PROVE MapGet(w, k, 1).got = MapGet(mr, k, 1).got
  <2>1. PICK i \in 0..(mr.max - 1) :
          /\ mr.slots[i] # Vacant
          /\ MapGet(mr, k, 1) = mr.slots[i].val /\ MapGet(w, k, 1) = w.slots[i].val
    BY <1>10, <1>11
  <2>2. mr.slots[i] \in E /\ w.slots[i] = old(mr.slots[i])
    BY <1>1, <1>6, <2>1
  <2> QED BY <1>4, <2>1, <2>2
<1> QED BY <1>0, <1>2, <1>10, <1>11 DEF RequestsOK

\* ... and the pings see a second pass.
LEMMA SecondWaits ==
  ASSUME NEW mp, MapInv(mp, Hosts, PingRecords, 1), NEW w, w = SecondPassed(mp)
  PROVE  /\ MapInv(w, Hosts, PingRecords, 1)
         /\ \A k : MapHas(w, k, 1) <=> MapHas(mp, k, 1)
         /\ \A k : MapHas(mp, k, 1) => MapGet(w, k, 1) = [MapGet(mp, k, 1) EXCEPT !.wait = TRUE]
<1> DEFINE E == [key : Hosts, val : PingRecords, time : 1..1]
           seen(e) == IF e = Vacant THEN e ELSE [e EXCEPT !.val.wait = TRUE]
<1>1. /\ MapTyped(mp, Hosts, PingRecords, 1)
      /\ mp.slots \in [0..(mp.max - 1) -> {Vacant} \cup E]
  BY DEF MapInv, MapTyped
<1>2. mp = [slots |-> mp.slots, size |-> mp.size, max |-> mp.max, timeout |-> mp.timeout]
  BY <1>1 DEF MapTyped
<1>3. w = [slots |-> [i \in 0..(mp.max - 1) |-> seen(mp.slots[i])],
           size |-> mp.size, max |-> mp.max, timeout |-> mp.timeout]
  <2>1. DOMAIN mp.slots = 0..(mp.max - 1)
    BY <1>1
  <2> QED BY <1>2, <2>1 DEF SecondPassed
<1>4. ASSUME NEW e \in E
      PROVE  /\ e # Vacant /\ seen(e) \in E
             /\ seen(e).key = e.key /\ seen(e).time = e.time
             /\ seen(e).val = [e.val EXCEPT !.wait = TRUE]
  <2>1. e # Vacant
    <3>1. e.time = 1 /\ Vacant.time = 0
      BY DEF Vacant
    <3> QED BY <3>1
  <2>2. PICK v : v = [e.val EXCEPT !.wait = TRUE]
    OBVIOUS
  <2>3. e.val \in PingRecords
    OBVIOUS
  <2>4. v \in PingRecords
    BY ONLY <2>2, <2>3 DEF PingRecords
  <2>5. seen(e) = [e EXCEPT !.val = v]
    BY <2>1, <2>2
  <2> HIDE DEF seen
  <2> QED BY <2>1, <2>2, <2>4, <2>5
<1>5. seen(Vacant) = Vacant
  OBVIOUS
<1> HIDE DEF seen
<1>6. /\ DOMAIN w.slots = 0..(mp.max - 1)
      /\ \A i \in 0..(mp.max - 1) : w.slots[i] = seen(mp.slots[i])
      /\ w = [slots |-> w.slots, size |-> mp.size, max |-> mp.max, timeout |-> mp.timeout]
  BY <1>3
<1>7. ASSUME NEW i \in 0..(mp.max - 1) PROVE w.slots[i] \in {Vacant} \cup E
  <2>1. mp.slots[i] \in {Vacant} \cup E /\ w.slots[i] = seen(mp.slots[i])
    BY <1>1, <1>6
  <2>2. CASE mp.slots[i] = Vacant
    BY <1>5, <2>1, <2>2
  <2>3. CASE mp.slots[i] \in E
    BY <1>4, <2>1, <2>3
  <2> QED BY <2>1, <2>2, <2>3
<1>8. w.slots \in [0..(mp.max - 1) -> {Vacant} \cup E]
  <2>1. w.slots = [i \in 0..(mp.max - 1) |-> seen(mp.slots[i])]
    BY <1>3
  <2> QED BY <1>6, <1>7, <2>1
<1>9. Aged(mp, w)
  BY <1>1, <1>4, <1>5, <1>6 DEF Aged
<1>10. /\ MapInv(w, Hosts, PingRecords, 1)
       /\ \A k : MapHas(w, k, 1) <=> MapHas(mp, k, 1)
       /\ \A k : MapHas(mp, k, 1) =>
            \E i \in 0..(mp.max - 1) :
              /\ mp.slots[i] # Vacant
              /\ MapGet(mp, k, 1) = mp.slots[i].val /\ MapGet(w, k, 1) = w.slots[i].val
  BY <1>8, <1>9, AgedShows
<1>11. ASSUME NEW k, MapHas(mp, k, 1) PROVE MapGet(w, k, 1) = [MapGet(mp, k, 1) EXCEPT !.wait = TRUE]
  <2>1. PICK i \in 0..(mp.max - 1) :
          /\ mp.slots[i] # Vacant
          /\ MapGet(mp, k, 1) = mp.slots[i].val /\ MapGet(w, k, 1) = w.slots[i].val
    BY <1>10, <1>11
  <2>2. mp.slots[i] \in E /\ w.slots[i] = seen(mp.slots[i])
    BY <1>1, <1>6, <2>1
  <2> QED BY <1>4, <2>1, <2>2
<1> QED BY <1>10, <1>11

LEMMA TickKeeps ==
  ASSUME NEW mp, NEW mr, NEW tg, NEW g, NEW w, PingOK(mp, mr, tg, g, w),
         NEW mr2, mr2 = Older(mr), NEW mp2, mp2 \in {mp, SecondPassed(mp)}
  PROVE  PingOK(mp2, mr2, tg, g, w)
<1>0. /\ MapInv(mp, Hosts, PingRecords, 1) /\ RequestsOK(mr) /\ OnWire(mr, w)
      /\ tg \in 1..(Len(Targets) + 1)
      /\ g \subseteq (DOMAIN Targets) \X (1..PingTestTime)
      /\ \A t \in DOMAIN Targets : PingAt(mp, mr, tg, g, t)
  BY DEF PingOK
<1>1. /\ RequestsOK(mr2)
      /\ \A k : MapHas(mr2, k, 1) <=> MapHas(mr, k, 1)
      /\ \A k : MapHas(mr, k, 1) => MapGet(mr2, k, 1).got = MapGet(mr, k, 1).got
  BY <1>0, OlderAges
<1>2. /\ MapInv(mp2, Hosts, PingRecords, 1)
      /\ \A k : MapHas(mp2, k, 1) <=> MapHas(mp, k, 1)
      /\ \A k : MapHas(mp, k, 1) =>
           MapGet(mp2, k, 1) \in {MapGet(mp, k, 1), [MapGet(mp, k, 1) EXCEPT !.wait = TRUE]}
  <2>1. CASE mp2 = mp
    BY <2>1, <1>0
  <2>2. CASE mp2 = SecondPassed(mp)
    BY <2>2, <1>0, SecondWaits
  <2> QED BY <2>1, <2>2
<1>3. OnWire(mr2, w)
  BY <1>0, <1>1 DEF OnWire
<1>4. ASSUME NEW t \in DOMAIN Targets PROVE PingAt(mp2, mr2, tg, g, t)
  <2>1. PingAt(mp, mr, tg, g, t)
    BY <1>0
  <2>2. CASE ~MapHas(mp, Targets[t], 1)
    BY <1>2, <2>1, <2>2 DEF PingAt
  <2>3. CASE MapHas(mp, Targets[t], 1)
    <3>1. PICK p, q : p = MapGet(mp, Targets[t], 1) /\ q = MapGet(mp2, Targets[t], 1)
      OBVIOUS
    <3>2. q \in {p, [p EXCEPT !.wait = TRUE]} /\ MapHas(mp2, Targets[t], 1)
      BY <1>2, <2>3, <3>1
    <3>3. /\ t <= tg /\ RecordOK(t, p, g) /\ (t < tg => p.is_finished)
          /\ p.ping_time > 0 => MapHas(mr, p.ping_time, 1)
          /\ t = tg /\ ~p.is_finished /\ p.ping_time > 0 =>
               (MapGet(mr, p.ping_time, 1).got # NoReply <=> <<t, p.ping_time>> \in g)
      BY <2>1, <2>3, <3>1 DEF PingAt
    <3>4. p \in PingRecords
      BY <3>3 DEF RecordOK
    <3>5. /\ q \in PingRecords /\ q.ping_time = p.ping_time /\ q.is_finished = p.is_finished
          /\ q.success_time = p.success_time /\ q.shortest_time = p.shortest_time
          /\ q.longest_time = p.longest_time /\ q.sum_time = p.sum_time
      BY ONLY <3>2, <3>4 DEF PingRecords
    <3>6. RecordOK(t, q, g)
      BY <3>3, <3>5 DEF RecordOK, Checked, InRange
    <3> QED BY <1>1, <2>3, <3>1, <3>2, <3>3, <3>5, <3>6 DEF PingAt
  <2> QED BY <2>2, <2>3
<1> QED BY <1>0, <1>1, <1>2, <1>3, <1>4 DEF PingOK

-----------------------------------------------------------------------------
(* The ping invariant *)

Counted == right \cup fooled
PingInv ==
  /\ pc # "null"
  /\ pc = "ping" => target <= Len(Targets)
  /\ PingOK(map_ping, map_ping_req, target, Counted, wire)

LEMMA LoopStartPings ==
  \A i : LoopStart(i) \in {"ping", "poll"} /\ (LoopStart(i) = "ping" => i <= Len(Targets))
BY DEF LoopStart

LEMMA PingInit == Init => PingInv
<1> SUFFICES ASSUME Init PROVE PingInv
  OBVIOUS
<1>1. /\ map_ping = MapInit(Len(Targets), 0) /\ map_ping_req = MapInit(PingTestTime, 0)
      /\ target = 1 /\ wire = {} /\ Counted = {} /\ pc = "open"
  BY DEF Init, Counted
<1>2. Len(Targets) \in Nat /\ PingTestTime \in Nat /\ 0 \in Nat
  BY TargetFacts, PingAssumption
<1>3. MapInv(map_ping, Hosts, PingRecords, 1) /\ \A k : ~ MapHas(map_ping, k, 1)
  BY <1>1, <1>2, NewMap
<1>4. /\ MapInv(map_ping_req, 1..PingTestTime, RequestRecords, 1)
      /\ map_ping_req.max = PingTestTime /\ map_ping_req.timeout = 0
  BY <1>1, <1>2, NewMap
<1>5. \A t \in DOMAIN Targets : PingAt(map_ping, map_ping_req, target, Counted, t)
  BY <1>1, <1>3 DEF PingAt
<1> QED BY <1>1, <1>2, <1>3, <1>4, <1>5 DEF PingInv, PingOK, RequestsOK, OnWire

\* What a frame does to the pings.
PingStep(f) ==
  \/ UNCHANGED pings /\ pc' = LoopStart(target)
  \/ /\ f.kind = "answer" /\ MapHas(map_ping_req, f.seq, Stamp)
     /\ map_ping_req' = ReplyRecorded(map_ping_req, f.seq)
     /\ UNCHANGED <<map_ping, target, wire>>
     /\ Counted' = IF Awaiting(f.seq) THEN Counted \cup {<<target, f.seq>>} ELSE Counted
     /\ pc' = LoopStart(target)
  \/ f.kind = "answer" /\ ~MapHas(map_ping_req, f.seq, Stamp)

LEMMA IcmpInPings ==
  ASSUME NEW b, NEW f, icmp_in(b, f)
  PROVE  PingStep(f)
<1>1. CASE f.kind = "echo"
  <2>1. Leave(b, Send("reply", b.payload), FALSE) /\ UNCHANGED pings
    BY <1>1 DEF icmp_in
  <2> QED BY <2>1 DEF Leave, PingStep
<1>2. CASE f.kind = "answer" /\ ~MapHas(map_ping_req, f.seq, Stamp)
  BY <1>2 DEF PingStep
<1>3. CASE f.kind = "answer" /\ MapHas(map_ping_req, f.seq, Stamp)
  <2>1. /\ map_ping_req' = ReplyRecorded(map_ping_req, f.seq)
        /\ Leave(b, Nothing, FALSE)
        /\ UNCHANGED <<map_ping, target, wire>>
    BY <1>3 DEF icmp_in
  <2>2. IF ~Awaiting(f.seq) THEN UNCHANGED <<right, fooled>>
        ELSE IF f.from = Targets[target]
        THEN right' = right \cup {<<target, f.seq>>} /\ UNCHANGED fooled
        ELSE fooled' = fooled \cup {<<target, f.seq>>} /\ UNCHANGED right
    BY <1>3 DEF icmp_in
  <2>3. Counted' = IF Awaiting(f.seq) THEN Counted \cup {<<target, f.seq>>} ELSE Counted
    BY <2>2 DEF Counted
  <2> QED BY <1>3, <2>1, <2>3 DEF Leave, PingStep
<1>4. CASE f.kind \notin {"echo", "answer"}
  <2>1. Drop(b)
    BY <1>4 DEF icmp_in
  <2> QED BY <2>1 DEF Drop, Leave, PingStep
<1> QED BY <1>1, <1>2, <1>3, <1>4

LEMMA FramePings ==
  ASSUME NEW b, NEW f, ethernet_in(b, f)
  PROVE  PingStep(f)
<1>1. \A c : Drop(c) => PingStep(f)
  BY DEF Drop, Leave, PingStep
<1>2. \A c, k, q, to : icmp_unreachable(c, k, q, to) => PingStep(f)
  BY DEF icmp_unreachable, Leave, PingStep
<1>3. \A c, o, h : Leave(c, o, h) /\ UNCHANGED pings => PingStep(f)
  BY DEF Leave, PingStep
<1>4. \A c : udp_in(c, f) => PingStep(f)
  BY <1>1, <1>2, <1>3 DEF udp_in
<1>5. \A c : ip_in(c, f) => PingStep(f)
  BY <1>1, <1>2, <1>4, IcmpInPings DEF ip_in
<1> QED BY <1>1, <1>5 DEF ethernet_in

LEMMA RecvPings ==
  ASSUME PingInv, NEW f \in Arrivals, driver_recv(f)
  PROVE  PingInv'
<1> DEFINE b == [len |-> Length(f), data |-> rxbuf.data, payload |-> f.src]
<1>1. PingOK(map_ping, map_ping_req, target, Counted, wire)
  BY DEF PingInv
<1>2. CASE ~InArray(b)
  <2>1. pc' = "overrun" /\ UNCHANGED pings
    BY <1>2 DEF driver_recv
  <2> QED BY <1>1, <2>1 DEF PingInv, pings, Counted
<1>3. CASE InArray(b)
  <2>1. PingStep(f)
    <3>1. ethernet_in(b, f)
      BY <1>3 DEF driver_recv
    <3> HIDE DEF b
    <3> QED BY <3>1, FramePings
  <2>2. CASE UNCHANGED pings /\ pc' = LoopStart(target)
    BY <1>1, <2>2, LoopStartPings DEF PingInv, pings, Counted
  <2>3. f.kind = "answer" => f.seq \in 1..PingTestTime /\ MapHas(map_ping_req, f.seq, 1)
    <3> SUFFICES ASSUME f.kind = "answer"
                 PROVE  f.seq \in 1..PingTestTime /\ MapHas(map_ping_req, f.seq, 1)
      OBVIOUS
    <3>1. f \notin Plain \cup Echo \cup Report \cup Foreign
      BY DEF Plain, Echo, Report, Foreign
    <3>2. f \notin Udp
      BY UdpFrame
    <3>3. PICK w \in wire : f = Answer(w)
      BY <3>1, <3>2 DEF Arrivals
    <3>4. f.seq = w.seq
      BY <3>3 DEF Answer
    <3> QED BY <1>1, <3>4 DEF PingOK, OnWire
  <2>4. CASE /\ f.kind = "answer"
             /\ map_ping_req' = ReplyRecorded(map_ping_req, f.seq)
             /\ UNCHANGED <<map_ping, target, wire>>
             /\ Counted' = IF Awaiting(f.seq) THEN Counted \cup {<<target, f.seq>>} ELSE Counted
             /\ pc' = LoopStart(target)
    <3>1. PICK seq \in 1..PingTestTime : seq = f.seq /\ MapHas(map_ping_req, seq, 1)
      BY <2>3, <2>4
    <3>2. PICK mr2, g2 : mr2 = map_ping_req' /\ g2 = Counted'
      OBVIOUS
    <3>3. mr2 = ReplyRecorded(map_ping_req, seq)
      BY <2>4, <3>1, <3>2
    <3>4. g2 = IF /\ target <= Len(Targets) /\ MapHas(map_ping, Targets[target], 1)
                  /\ MapGet(map_ping, Targets[target], 1).ping_time = seq
                  /\ ~MapGet(map_ping, Targets[target], 1).is_finished
               THEN Counted \cup {<<target, seq>>} ELSE Counted
      BY <2>4, <3>1, <3>2 DEF Awaiting, Stamp
    <3>5. PingOK(map_ping, mr2, target, g2, wire)
      BY <1>1, <3>1, <3>3, <3>4, ReplyKeeps
    <3>6. map_ping' = map_ping /\ target' = target /\ wire' = wire
      BY <2>4
    <3>7. PingOK(map_ping', map_ping_req', target', Counted', wire')
      BY <3>2, <3>5, <3>6
    <3> QED BY <2>4, <3>6, <3>7, LoopStartPings DEF PingInv
  <2> QED BY <2>1, <2>2, <2>3, <2>4 DEF PingStep, Stamp
<1> QED BY <1>2, <1>3

\* A request sent is a request recorded.
LEMMA SendRecords ==
  ASSUME RequestsOK(map_ping_req), OnWire(map_ping_req, wire), NEW dst \in Hosts,
         NEW seq \in 1..PingTestTime, icmp_req_out(dst, seq)
  PROVE  /\ RequestsOK(map_ping_req') /\ OnWire(map_ping_req', wire')
         /\ MapHas(map_ping_req', seq, 1) /\ MapGet(map_ping_req', seq, 1).got = NoReply
         /\ \A q \in 1..PingTestTime : MapHas(map_ping_req, q, 1) => MapHas(map_ping_req', q, 1)
<1>1. PICK w : w = map_ping_req' /\ w = RequestRecorded(map_ping_req, dst, seq)
  BY DEF icmp_req_out
<1>2. /\ RequestsOK(w)
      /\ MapHas(w, seq, 1) /\ MapGet(w, seq, 1).got = NoReply
      /\ \A q \in (1..PingTestTime) \ {seq} : Same(map_ping_req, w, q)
  BY <1>1, RequestPuts
<1>3. \A q \in 1..PingTestTime : MapHas(map_ping_req, q, 1) => MapHas(w, q, 1)
  BY <1>2 DEF Same
<1>4. wire' = wire \cup {[from |-> dst, seq |-> seq]}
  BY DEF icmp_req_out
<1>5. OnWire(w, wire')
  BY <1>2, <1>3, <1>4 DEF OnWire
<1> QED BY <1>1, <1>2, <1>3, <1>5

LEMMA FirstKeeps ==
  ASSUME PingOK(map_ping, map_ping_req, target, Counted, wire), target <= Len(Targets),
         NEW dst, dst = Targets[target], ~MapHas(map_ping, dst, 1), FirstCall(dst)
  PROVE  PingOK(map_ping', map_ping_req', target, Counted, wire')
<1>0. /\ MapInv(map_ping, Hosts, PingRecords, 1)
      /\ RequestsOK(map_ping_req) /\ OnWire(map_ping_req, wire)
      /\ target \in 1..(Len(Targets) + 1)
      /\ \A t \in DOMAIN Targets : PingAt(map_ping, map_ping_req, target, Counted, t)
  BY DEF PingOK
<1>1. target \in DOMAIN Targets /\ dst \in Hosts
  BY <1>0, TargetFacts
<1>2. \A s : <<target, s>> \notin Counted
  BY <1>0, <1>1 DEF PingAt
<1>3. RecordOK(target, NewPing, Counted)
  BY <1>2, FirstRecord
<1>4. NewPing \in PingRecords /\ NewPing.ping_time = 0
  BY <1>3 DEF RecordOK, NewPing
<1>5. PICK mp2 : mp2 = map_ping' /\ AfterSet(map_ping, dst, NewPing, 1, mp2)
  BY DEF FirstCall, AfterSet, Stamp
<1>6. Put(Hosts, PingRecords, map_ping, mp2, dst, NewPing)
  BY <1>0, <1>1, <1>4, <1>5, SetPuts
<1>7. /\ RequestsOK(map_ping_req') /\ OnWire(map_ping_req', wire')
      /\ \A q \in 1..PingTestTime : MapHas(map_ping_req, q, 1) => MapHas(map_ping_req', q, 1)
  <2>1. CASE UNCHANGED <<map_ping_req, wire>>
    BY <1>0, <2>1
  <2>2. CASE icmp_req_out(dst, 1)
    <3>1. 1 \in 1..PingTestTime
      BY PingAssumption
    <3> QED BY <1>0, <1>1, <2>2, <3>1, SendRecords
  <2> QED BY <2>1, <2>2 DEF FirstCall
<1>8. PICK mr2, w2 : mr2 = map_ping_req' /\ w2 = wire'
  OBVIOUS
<1>9. PingAt(mp2, mr2, target, Counted, target)
  <2>1. MapHas(mp2, dst, 1) => MapGet(mp2, dst, 1) = NewPing
    BY <1>6 DEF Put
  <2>2. target \in Nat
    BY <1>0, TargetFacts
  <2> QED BY <1>2, <1>3, <1>4, <2>1, <2>2 DEF PingAt
<1>10. Put(Hosts, PingRecords, map_ping, mp2, Targets[target], NewPing)
  BY <1>6
<1>11. /\ RequestsOK(mr2) /\ OnWire(mr2, w2)
       /\ \A q \in 1..PingTestTime : MapHas(map_ping_req, q, 1) => MapHas(mr2, q, 1)
  BY <1>7, <1>8
<1>12. PingOK(mp2, mr2, target, Counted, w2)
  BY <1>9, <1>10, <1>11, RecordKeeps
<1> QED BY <1>5, <1>8, <1>12

LEMMA LaterKeeps ==
  ASSUME PingOK(map_ping, map_ping_req, target, Counted, wire), target <= Len(Targets),
         NEW dst, dst = Targets[target], MapHas(map_ping, dst, 1),
         NEW p, p = MapGet(map_ping, dst, 1), ~p.is_finished, LaterCall(dst, p)
  PROVE  PingOK(map_ping', map_ping_req', target, Counted, wire')
<1>0. /\ MapInv(map_ping, Hosts, PingRecords, 1)
      /\ RequestsOK(map_ping_req) /\ OnWire(map_ping_req, wire)
      /\ target \in 1..(Len(Targets) + 1)
      /\ \A t \in DOMAIN Targets : PingAt(map_ping, map_ping_req, target, Counted, t)
  BY DEF PingOK
<1>1. target \in DOMAIN Targets /\ dst \in Hosts
  BY <1>0, TargetFacts
<1>2. PingAt(map_ping, map_ping_req, target, Counted, target)
  BY <1>0, <1>1
<1>3. /\ RecordOK(target, p, Counted)
      /\ p.ping_time > 0 => MapHas(map_ping_req, p.ping_time, 1)
      /\ p.ping_time > 0 =>
           (MapGet(map_ping_req, p.ping_time, 1).got # NoReply <=> <<target, p.ping_time>> \in Counted)
  BY <1>2 DEF PingAt
<1>4. p \in PingRecords /\ p.ping_time \in 0..PingTestTime /\ PingTestTime \in Nat
  BY <1>3, PingAssumption DEF RecordOK, PingRecords
<1>5. CASE ~p.wait
  <2>1. UNCHANGED <<map_ping, map_ping_req, wire>>
    BY <1>5 DEF LaterCall
  <2> QED BY <2>1
<1>6. CASE p.wait
  <2>1. PICK r : r = MapGet(map_ping_req, p.ping_time, 1)
    OBVIOUS
  <2>2. PICK q : q = IF p.ping_time = 0 THEN p ELSE ping_req_check(p, r)
    OBVIOUS
  <2>3. p.ping_time # 0 => r \in RequestRecords /\ (r.got # NoReply <=> <<target, p.ping_time>> \in Counted)
    <3> SUFFICES ASSUME p.ping_time # 0
                 PROVE  r \in RequestRecords /\ (r.got # NoReply <=> <<target, p.ping_time>> \in Counted)
      OBVIOUS
    <3>1. p.ping_time > 0
      BY <1>4
    <3>2. MapHas(map_ping_req, p.ping_time, 1)
      BY <1>3, <3>1
    <3>3. MapInv(map_ping_req, 1..PingTestTime, RequestRecords, 1)
      BY <1>0 DEF RequestsOK
    <3>4. r \in RequestRecords
      BY <2>1, <3>2, <3>3, GetTyped
    <3> QED BY <1>3, <2>1, <3>1, <3>4
  <2>4. /\ q \in PingRecords /\ q.ping_time = p.ping_time /\ ~q.is_finished
        /\ q.success_time = Cardinality(Answered(Counted, target, q.ping_time))
        /\ InRange(q)
    BY <1>3, <2>2, <2>3, CheckCounts
  <2>5. \A s : <<target, s>> \in Counted => s \in 1..q.ping_time
    BY <1>3, <2>4 DEF RecordOK
  <2>6. IF p.ping_time = PingTestTime THEN Finish(dst, q) ELSE NextRequest(dst, q)
    BY <1>6, <2>1, <2>2 DEF LaterCall, Stamp
  <2>7. CASE p.ping_time = PingTestTime
    <3>1. Finish(dst, q)
      BY <2>6, <2>7
    <3>2. PICK n : n = [q EXCEPT !.is_finished = TRUE]
      OBVIOUS
    <3>3. RecordOK(target, n, Counted) /\ n.ping_time = q.ping_time /\ n.is_finished
      BY <2>4, <2>5, <2>7, <3>2, FinishedRecord
    <3>4. PICK mp2 : mp2 = map_ping' /\ AfterRevise(map_ping, dst, n, 1, mp2)
      BY <3>1, <3>2 DEF Finish, AfterRevise, Stamp
    <3>5. n \in PingRecords
      BY <3>3 DEF RecordOK
    <3>6. Put(Hosts, PingRecords, map_ping, mp2, Targets[target], n) /\ MapHas(mp2, dst, 1) /\ MapGet(mp2, dst, 1) = n
      BY <1>0, <1>1, <3>4, <3>5, RevisePuts
    <3>7. UNCHANGED <<map_ping_req, wire>>
      BY <3>1 DEF Finish
    <3>8. PingAt(mp2, map_ping_req, target, Counted, target)
      BY <1>0, <1>3, <2>4, <3>3, <3>6, TargetFacts DEF PingAt
    <3>9. PingOK(mp2, map_ping_req, target, Counted, wire)
      <4>1. \A k \in 1..PingTestTime : MapHas(map_ping_req, k, 1) => MapHas(map_ping_req, k, 1)
        OBVIOUS
      <4> QED BY <1>0, <3>6, <3>8, <4>1, RecordKeeps
    <3> QED BY <3>4, <3>7, <3>9
  <2>8. CASE p.ping_time # PingTestTime
    <3>1. NextRequest(dst, q)
      BY <2>6, <2>8
    <3>2. PICK n : n = NextOf(q)
      OBVIOUS
    <3>3. RecordOK(target, n, Counted) /\ n.ping_time = NextTime(q) /\ ~n.is_finished
      <4>1. q.ping_time # PingTestTime
        BY <2>4, <2>8
      <4>2. q \in PingRecords
        BY <2>4
      <4>3. ~q.is_finished
        BY <2>4
      <4>4. q.success_time = Cardinality(Answered(Counted, target, q.ping_time))
        BY <2>4
      <4>5. InRange(q)
        BY <2>4
      <4> QED BY ONLY <2>5, <3>2, <4>1, <4>2, <4>3, <4>4, <4>5, NextRecord
    <3>4. PICK mp2 : mp2 = map_ping' /\ AfterRevise(map_ping, dst, n, 1, mp2)
      BY <3>1, <3>2 DEF NextRequest, AfterRevise, Stamp, NextOf
    <3>5. n \in PingRecords
      BY <3>3 DEF RecordOK
    <3>6. Put(Hosts, PingRecords, map_ping, mp2, Targets[target], n) /\ MapHas(mp2, dst, 1) /\ MapGet(mp2, dst, 1) = n
      BY <1>0, <1>1, <3>4, <3>5, RevisePuts
    <3>7. PICK seq \in 1..PingTestTime : seq = q.ping_time + 1
      BY <1>4, <2>4, <2>8
    <3>8. icmp_req_out(dst, seq)
      BY <3>1, <3>7 DEF NextRequest
    <3>9. /\ RequestsOK(map_ping_req') /\ OnWire(map_ping_req', wire')
          /\ MapHas(map_ping_req', seq, 1) /\ MapGet(map_ping_req', seq, 1).got = NoReply
          /\ \A k \in 1..PingTestTime : MapHas(map_ping_req, k, 1) => MapHas(map_ping_req', k, 1)
      BY <1>0, <1>1, <3>8, SendRecords
    <3>10. PICK mr2, w2 : mr2 = map_ping_req' /\ w2 = wire'
      OBVIOUS
    <3>11. <<target, seq>> \notin Counted
      BY <1>4, <2>4, <2>5, <3>7
    <3>12. PingAt(mp2, mr2, target, Counted, target)
      <4>1. n.ping_time = seq /\ target \in Nat
        BY <1>0, <3>3, <3>7, TargetFacts DEF NextTime
      <4> QED BY <3>3, <3>6, <3>9, <3>10, <3>11, <4>1 DEF PingAt
    <3>13. /\ RequestsOK(mr2) /\ OnWire(mr2, w2)
           /\ \A k \in 1..PingTestTime : MapHas(map_ping_req, k, 1) => MapHas(mr2, k, 1)
      BY <3>9, <3>10
    <3>14. PingOK(mp2, mr2, target, Counted, w2)
      BY <3>6, <3>12, <3>13, RecordKeeps
    <3> QED BY <3>4, <3>10, <3>14
  <2> QED BY <2>7, <2>8
<1> QED BY <1>5, <1>6

LEMMA PingReqKeeps == PingInv /\ ping_req => PingInv'
<1> SUFFICES ASSUME PingInv, ping_req PROVE PingInv'
  OBVIOUS
<1>1. /\ PingOK(map_ping, map_ping_req, target, Counted, wire)
      /\ pc = "ping" /\ target <= Len(Targets)
      /\ Counted' = Counted
  BY DEF PingInv, ping_req, Counted
<1>2. PICK dst : dst = Targets[target]
  OBVIOUS
<1>3. CASE Finished(dst)
  <2>1. /\ target' = target + 1 /\ pc' = LoopStart(target + 1)
        /\ UNCHANGED <<map_ping, map_ping_req, wire>>
    BY <1>2, <1>3 DEF ping_req
  <2>2. MapHas(map_ping, Targets[target], 1) /\ MapGet(map_ping, Targets[target], 1).is_finished
    BY <1>2, <1>3 DEF Finished, Stamp
  <2>3. PingOK(map_ping, map_ping_req, target + 1, Counted, wire)
    BY <1>1, <2>2, MoveKeeps
  <2>4. pc' # "null" /\ (pc' = "ping" => target + 1 <= Len(Targets))
    BY <2>1, LoopStartPings
  <2> QED BY <1>1, <2>1, <2>3, <2>4 DEF PingInv
<1>4. CASE ~Finished(dst)
  <2>1. target \in DOMAIN Targets /\ PingAt(map_ping, map_ping_req, target, Counted, target)
    <3>1. target \in 1..(Len(Targets) + 1)
      BY <1>1 DEF PingOK
    <3>2. target \in DOMAIN Targets
      BY <1>1, <3>1, TargetFacts
    <3> QED BY <1>1, <3>2 DEF PingOK
  <2>2. ~Unrecorded(dst)
    BY <1>2, <2>1 DEF Unrecorded, PingAt, Stamp
  <2>3. target' = target /\ pc' = "poll"
    BY <1>2, <1>4, <2>2 DEF ping_req
  <2>4. IF MapHas(map_ping, dst, Stamp) THEN LaterCall(dst, MapGet(map_ping, dst, Stamp)) ELSE FirstCall(dst)
    BY <1>2, <1>4, <2>2 DEF ping_req
  <2>5. PingOK(map_ping', map_ping_req', target, Counted, wire')
    <3>1. CASE MapHas(map_ping, dst, 1)
      <4>1. PICK p : p = MapGet(map_ping, dst, 1)
        OBVIOUS
      <4>2. LaterCall(dst, p) /\ ~p.is_finished
        BY <1>4, <2>4, <3>1, <4>1 DEF Finished, Stamp
      <4> QED BY <1>1, <1>2, <3>1, <4>1, <4>2, LaterKeeps
    <3>2. CASE ~MapHas(map_ping, dst, 1)
      <4>1. FirstCall(dst)
        BY <2>4, <3>2 DEF Stamp
      <4> QED BY <1>1, <1>2, <3>2, <4>1, FirstKeeps
    <3> QED BY <3>1, <3>2
  <2> QED BY <1>1, <2>3, <2>5 DEF PingInv
<1> QED BY <1>3, <1>4

LEMMA OthersPing ==
  PingInv /\ (driver_open \/ net_init \/ net_poll \/ Tick
              \/ \E port \in Ports : udp_open(port) \/ udp_close(port)) => PingInv'
<1> SUFFICES ASSUME PingInv, driver_open \/ net_init \/ net_poll \/ Tick
                             \/ \E port \in Ports : udp_open(port) \/ udp_close(port)
             PROVE  PingInv'
  OBVIOUS
<1>1. /\ PingOK(map_ping, map_ping_req, target, Counted, wire)
      /\ pc # "null" /\ (pc = "ping" => target <= Len(Targets))
  BY DEF PingInv
<1>2. CASE driver_open
  <2>1. UNCHANGED pings /\ pc' \in {"failed", "init"}
    BY <1>2 DEF driver_open
  <2> QED BY <1>1, <2>1 DEF PingInv, pings, Counted
<1>3. CASE net_init
  <2>1. UNCHANGED pings /\ pc' = LoopStart(target)
    BY <1>3 DEF net_init
  <2> QED BY <1>1, <2>1, LoopStartPings DEF PingInv, pings, Counted
<1>4. CASE net_poll
  <2>1. CASE \E f \in Arrivals : driver_recv(f)
    BY <2>1, RecvPings
  <2>2. CASE UNCHANGED pings /\ pc' = LoopStart(target)
    BY <1>1, <2>2, LoopStartPings DEF PingInv, pings, Counted
  <2> QED BY <1>4, <2>1, <2>2 DEF net_poll
<1>5. CASE Tick
  <2>1. /\ map_ping_req' = Older(map_ping_req)
        /\ map_ping' \in {map_ping, SecondPassed(map_ping)}
        /\ UNCHANGED <<pc, target, wire>> /\ Counted' = Counted
    BY <1>5 DEF Tick, Counted
  <2>2. PICK mr2, mp2 : mr2 = map_ping_req' /\ mp2 = map_ping'
    OBVIOUS
  <2>3. PingOK(mp2, mr2, target, Counted, wire)
    BY <1>1, <2>1, <2>2, TickKeeps
  <2> QED BY <1>1, <2>1, <2>2, <2>3 DEF PingInv
<1>6. CASE \E port \in Ports : udp_open(port) \/ udp_close(port)
  <2>1. UNCHANGED pings /\ pc' = pc
    BY <1>6 DEF udp_open, udp_close
  <2> QED BY <1>1, <2>1 DEF PingInv, pings, Counted
<1> QED BY <1>2, <1>3, <1>4, <1>5, <1>6

THEOREM PingInvariance == Spec => []PingInv
<1>1. PingInv /\ [Next]_vars => PingInv'
  <2> SUFFICES ASSUME PingInv, [Next]_vars PROVE PingInv'
    OBVIOUS
  <2>1. CASE UNCHANGED vars
    BY <2>1 DEF vars, pings, PingInv, Counted
  <2> QED BY <2>1, PingReqKeeps, OthersPing DEF Next
<1> QED BY <1>1, PingInit, PTL DEF Spec

\* No reply and no check ever meets a request that is not recorded, for any
\* number of targets and requests, late, repeated and foreign answers: the
\* pointers icmp_in and ping_req_check follow (icmp.c:62, 215) are never null as
\* long as hosts answer only what they were asked.
THEOREM NeverNull == Spec => []RequestsRecorded
<1>1. PingInv => RequestsRecorded BY DEF PingInv, RequestsRecorded
<1> QED BY <1>1, PingInvariance, PTL

\* The successes that ping_req reports are the requests that were answered while
\* they were awaited, each once, whatever the record of that number held before.
THEOREM RepliesOnce == Spec => []RepliesCountedOnce
<1>1. PingInv => RepliesCountedOnce
  <2> SUFFICES ASSUME PingInv, NEW t \in Pinged
               PROVE  LET p == Record(t)
                          checked == IF p.is_finished THEN PingTestTime ELSE p.ping_time - 1
                      IN  p.success_time = Cardinality({s \in 1..checked : <<t, s>> \in right \cup fooled})
    BY DEF RepliesCountedOnce
  <2>1. PICK p : p = Record(t)
    OBVIOUS
  <2>2. RecordOK(t, p, Counted)
    BY <2>1 DEF PingInv, PingOK, PingAt, Pinged, Record, Stamp
  <2>3. p.success_time = Cardinality(Answered(Counted, t, Checked(p)))
    BY <2>2 DEF RecordOK
  <2> QED BY <2>1, <2>3 DEF Answered, Checked, Counted
<1> QED BY <1>1, PingInvariance, PTL

\* The average round trip that is printed lies between the shortest and the
\* longest, for every number of replies and all their times.
THEOREM AverageBetween == Spec => []AverageInRange
<1>1. PingInv => AverageInRange
  <2> SUFFICES ASSUME PingInv, NEW t \in Pinged
               PROVE  LET p == Record(t)
                      IN  /\ p.shortest_time * p.success_time <= p.sum_time
                          /\ p.sum_time <= p.longest_time * p.success_time
    BY DEF AverageInRange
  <2>1. PICK p : p = Record(t)
    OBVIOUS
  <2>2. InRange(p)
    BY <2>1 DEF PingInv, PingOK, PingAt, Pinged, Record, Stamp, RecordOK
  <2> QED BY <2>1, <2>2 DEF InRange
<1> QED BY <1>1, PingInvariance, PTL

-----------------------------------------------------------------------------
(* driver.c: the interface that is opened *)

\* Two addresses of n bits: they agree in as many bits as ip_prefix_match says,
\* and in no more.
LEMMA PrefixMatch ==
  ASSUME NEW n \in Nat, NEW a \in Seq(0..1), Len(a) = n, NEW b,
         NEW m, m = ip_prefix_match(a, b)
  PROVE  /\ m \in 0..n
         /\ \A i \in 1..m : a[i] = b[i]
         /\ m < n => a[m + 1] # b[m + 1]
<1> DEFINE differ == {i \in 1..n : a[i] # b[i]}
<1>1. DOMAIN a = 1..n
  OBVIOUS
<1>2. CASE differ = {}
  <2>1. m = n
    BY <1>1, <1>2 DEF ip_prefix_match
  <2> QED BY <1>2, <2>1
<1>3. CASE differ # {}
  <2>1. PICK l : l = Least(differ)
    OBVIOUS
  <2>2. m = l - 1
    BY <1>1, <1>3, <2>1 DEF ip_prefix_match, Least
  <2>3. differ \subseteq Nat
    OBVIOUS
  <2>4. l \in differ /\ \A j \in differ : l <= j
    <3> HIDE DEF differ
    <3> QED BY <1>3, <2>1, <2>3, LeastExists
  <2>5. l \in 1..n /\ a[l] # b[l] /\ \A i \in 1..(l - 1) : a[i] = b[i]
    BY <2>4
  <2> QED BY <2>2, <2>5
<1> QED BY <1>2, <1>3

Ones == [i \in 1..Len(SelfBits) |-> 1]
Mask(n) == [i \in 1..Len(SelfBits) |-> IF i <= n THEN 1 ELSE 0]

LEMMA SelfBitsTyped == SelfBits \in Seq(0..1) /\ Len(SelfBits) \in Nat
BY InterfacesAssumption

\* A netmask of n ones matches all ones in n bits.
LEMMA MaskMatch ==
  ASSUME NEW n \in 0..Len(SelfBits)
  PROVE  ip_prefix_match(Ones, Mask(n)) = n
<1>1. PICK k \in Nat : k = Len(SelfBits)
  BY SelfBitsTyped
<1>2. PICK a, b, m : a = Ones /\ b = Mask(n) /\ m = ip_prefix_match(a, b)
  OBVIOUS
<1>3. a \in Seq(0..1) /\ Len(a) = k /\ \A i \in 1..k : a[i] = 1
  BY <1>1, <1>2 DEF Ones
<1>4. \A i \in 1..k : b[i] = IF i <= n THEN 1 ELSE 0
  BY <1>1, <1>2 DEF Mask
<1>5. /\ m \in 0..k
      /\ \A i \in 1..m : a[i] = b[i]
      /\ m < k => a[m + 1] # b[m + 1]
  BY <1>1, <1>2, <1>3, PrefixMatch
<1>6. m <= n
  <2> SUFFICES ASSUME m > n PROVE FALSE
    BY <1>1, <1>5
  <2>1. n + 1 \in 1..m /\ n + 1 \in 1..k
    BY <1>1, <1>5
  <2> QED BY <1>1, <1>3, <1>4, <1>5, <2>1
<1>7. m >= n
  <2> SUFFICES ASSUME m < n PROVE FALSE
    BY <1>1, <1>5
  <2>1. m + 1 \in 1..k /\ m + 1 <= n /\ m < k
    BY <1>1, <1>5
  <2> QED BY <1>1, <1>3, <1>4, <1>5, <2>1
<1> QED BY <1>1, <1>2, <1>5, <1>6, <1>7

\* An address of an interface, with a netmask.
Ipv4(a) ==
  /\ a.addr \in [1..Len(SelfBits) -> 0..1]
  /\ \E n \in 0..Len(SelfBits) : a.mask = Mask(n)

\* Two addresses begin alike if their bits do.
LEMMA AgreeBits ==
  ASSUME NEW a, Ipv4(a), NEW n \in 0..Len(SelfBits)
  PROVE  Agree(a, n) <=> \A i \in 1..n : a.addr[i] = SelfBits[i]
<1>0. PICK k \in Nat : k = Len(SelfBits)
  BY SelfBitsTyped
<1>1. PICK s, t : s = a.addr /\ t = SelfBits
  OBVIOUS
<1>2. s \in [1..k -> 0..1] /\ t \in [1..k -> 0..1] /\ n \in 0..k /\ n \in Int /\ 1 \in Int
  BY <1>0, <1>1, SelfBitsTyped DEF Ipv4
<1>3. (\A i \in 1..n : s[i] \in 0..1) /\ (\A i \in 1..n : t[i] \in 0..1)
  BY <1>2
<1>4. /\ SubSeq(s, 1, n) \in Seq(0..1) /\ Len(SubSeq(s, 1, n)) = n
      /\ \A i \in 1..n : SubSeq(s, 1, n)[i] = s[i]
  <2>1. /\ SubSeq(s, 1, n) \in Seq(0..1)
        /\ Len(SubSeq(s, 1, n)) = IF 1 <= n THEN n - 1 + 1 ELSE 0
        /\ \A i \in 1..(n - 1 + 1) : SubSeq(s, 1, n)[i] = s[1 + i - 1]
    BY ONLY <1>2, <1>3, SubSeqProperties
  <2> QED BY <1>2, <2>1
<1>5. /\ SubSeq(t, 1, n) \in Seq(0..1) /\ Len(SubSeq(t, 1, n)) = n
      /\ \A i \in 1..n : SubSeq(t, 1, n)[i] = t[i]
  <2>1. /\ SubSeq(t, 1, n) \in Seq(0..1)
        /\ Len(SubSeq(t, 1, n)) = IF 1 <= n THEN n - 1 + 1 ELSE 0
        /\ \A i \in 1..(n - 1 + 1) : SubSeq(t, 1, n)[i] = t[1 + i - 1]
    BY ONLY <1>2, <1>3, SubSeqProperties
  <2> QED BY <1>2, <2>1
<1>6. PICK x, y : x = SubSeq(s, 1, n) /\ y = SubSeq(t, 1, n)
  OBVIOUS
<1>7. x = y <=> \A i \in 1..n : s[i] = t[i]
  <2>1. ASSUME \A i \in 1..n : s[i] = t[i] PROVE x = y
    <3>1. x \in Seq(0..1) /\ y \in Seq(0..1) /\ Len(x) = Len(y)
      BY <1>4, <1>5, <1>6
    <3>2. \A i \in 1..Len(x) : x[i] = y[i]
      BY <1>4, <1>5, <1>6, <2>1
    <3> QED BY ONLY <3>1, <3>2, SeqEqual
  <2> QED BY <1>4, <1>5, <1>6, <2>1
<1> QED BY <1>1, <1>6, <1>7 DEF Agree

\* What the match of an interface with one address says of that address.
LEMMA MatchSays ==
  ASSUME NEW d, NEW ads, ads = InetAddresses(d), Len(ads) = 1, NEW a, a = ads[1], Ipv4(a),
         NEW m, m = Match(d)
  PROVE  /\ m \in 0..Len(SelfBits)
         /\ m > 0 => OnLink(a) /\ \A n \in 1..m : Agree(a, n)
         /\ OnLink(a) => \A n \in 1..Len(SelfBits) : Agree(a, n) => n <= m
         /\ OnLink(a) /\ a.addr = SelfBits => m = Len(SelfBits)
<1>1. PICK k \in Nat : k = Len(SelfBits)
  BY SelfBitsTyped
<1>2. PICK n \in 0..k : a.mask = Mask(n)
  BY <1>1 DEF Ipv4
<1>3. MaskBits(a) = n
  BY <1>1, <1>2, MaskMatch DEF MaskBits, Ones
<1>4. PICK p, s, b : p = ip_prefix_match(s, b) /\ s = SelfBits /\ b = a.addr
  OBVIOUS
<1>5. /\ p \in 0..k
      /\ \A i \in 1..p : s[i] = b[i]
      /\ p < k => s[p + 1] # b[p + 1]
  BY <1>1, <1>4, SelfBitsTyped, PrefixMatch
<1>6. m = IF p < n THEN 0 ELSE p
  <2>1. ads # <<>> /\ Last(ads) = a
    BY DEF Last
  <2> QED BY <1>3, <1>4, <2>1 DEF Match
<1>7. OnLink(a) <=> n <= p
  <2>1. OnLink(a) <=> \A i \in 1..k : i <= n => b[i] = s[i]
    BY <1>1, <1>2, <1>4 DEF OnLink, Mask
  <2>2. CASE n <= p
    BY <1>5, <2>1, <2>2
  <2>3. CASE p < n
    <3>1. p + 1 \in 1..k /\ p + 1 <= n /\ p < k
      BY <1>5, <2>3
    <3> QED BY <1>5, <2>1, <2>3, <3>1
  <2> QED BY <1>5, <2>2, <2>3
<1>8. \A i \in 1..k : Agree(a, i) <=> i <= p
  <2> SUFFICES ASSUME NEW i \in 1..k PROVE Agree(a, i) <=> i <= p
    OBVIOUS
  <2>1. i \in 0..Len(SelfBits)
    BY <1>1
  <2>2. Agree(a, i) <=> \A j \in 1..i : b[j] = s[j]
    BY <1>4, <2>1, AgreeBits
  <2>3. CASE i <= p
    BY <1>5, <2>2, <2>3
  <2>4. CASE p < i
    <3>1. p + 1 \in 1..i /\ p < k
      BY <1>5, <2>4
    <3> QED BY <1>5, <2>2, <2>4, <3>1
  <2> QED BY <1>5, <2>3, <2>4
<1>9. b = s => p = k
  BY <1>5
<1> QED BY <1>1, <1>4, <1>5, <1>6, <1>7, <1>8, <1>9

LEMMA MatchNone == ASSUME NEW d, InetAddresses(d) = <<>> PROVE Match(d) = 0
BY DEF Match

LEMMA OneElement ==
  ASSUME NEW S, NEW s \in Seq(S), s # <<>>, Len(s) <= 1
  PROVE  Len(s) = 1 /\ s[1] \in S
<1>1. Len(s) \in Nat \ {0}
  BY EmptySeq
<1>2. PICK n \in Nat \ {0} : n = Len(s)
  BY <1>1
<1>3. n = 1
  BY <1>2
<1>4. 1 \in 1..Len(s)
  BY <1>2, <1>3
<1> QED BY <1>2, <1>3, <1>4, ElementOfSeq

\* What driver_find returns is the best interface there is.
LEMMA FoundIsBest ==
  ASSUME interfaces \in InterfaceLists, NEW f, f = driver_find
  PROVE  /\ f \in Nat
         /\ f # 0 =>
              LET single == \A d \in DOMAIN interfaces : Len(InetAddresses(interfaces[d])) <= 1
                  ours(d) == InetAddresses(interfaces[d])[1]
                  usable == {d \in DOMAIN interfaces : InetAddresses(interfaces[d]) # <<>> /\ OnLink(ours(d))}
              IN  single =>
                    /\ f \in usable
                    /\ \A d \in usable :
                         /\ ours(d).addr # SelfBits
                         /\ \A n \in 1..Len(SelfBits) : Agree(ours(d), n) => Agree(ours(f), n)
<1> DEFINE D == DOMAIN interfaces
           match == [i \in D |-> Match(interfaces[i])]
           best == {i \in D : \A j \in D : match[j] <= match[i]}
           ours(d) == InetAddresses(interfaces[d])[1]
           usable == {d \in D : InetAddresses(interfaces[d]) # <<>> /\ OnLink(ours(d))}
<1>1. D \subseteq Nat
  BY InterfacesAssumption
<1>2. f = IF best = {} THEN 0 ELSE IF match[Least(best)] \in {0, Len(SelfBits)} THEN 0 ELSE Least(best)
  BY DEF driver_find
<1>3. best \subseteq Nat
  BY <1>1
<1>4. best # {} => Least(best) \in best
  <2> HIDE DEF best
  <2> QED BY <1>3, LeastExists
<1>5. f \in Nat
  <2>1. f \in {0, Least(best)} /\ (best = {} => f = 0)
    BY <1>2
  <2> HIDE DEF best
  <2>2. best # {} => Least(best) \in Nat
    BY <1>3, <1>4
  <2> QED BY <2>1, <2>2
<1>6. ASSUME f # 0 PROVE f \in D /\ match[f] \notin {0, Len(SelfBits)} /\ \A j \in D : match[j] <= match[f]
  BY <1>2, <1>4, <1>6
<1>7. ASSUME f # 0, \A d \in D : Len(InetAddresses(interfaces[d])) <= 1
      PROVE  /\ f \in usable
             /\ \A d \in usable :
                  /\ ours(d).addr # SelfBits
                  /\ \A n \in 1..Len(SelfBits) : Agree(ours(d), n) => Agree(ours(f), n)
  <2>1. \A d \in D : InetAddresses(interfaces[d]) # <<>> =>
          Len(InetAddresses(interfaces[d])) = 1 /\ Ipv4(ours(d))
    <3> SUFFICES ASSUME NEW d \in D, InetAddresses(interfaces[d]) # <<>>
                 PROVE  Len(InetAddresses(interfaces[d])) = 1 /\ Ipv4(ours(d))
      OBVIOUS
    <3>1. PICK ads : ads = InetAddresses(interfaces[d])
      OBVIOUS
    <3>2. PICK S : S = {a \in Range(interfaces[d]) :
                          /\ a.inet /\ a.addr \in [1..Len(SelfBits) -> 0..1]
                          /\ a.mask \in {[i \in 1..Len(SelfBits) |-> IF i <= n THEN 1 ELSE 0] : n \in 0..Len(SelfBits)}}
      OBVIOUS
    <3>3. ads \in Seq(S)
      BY <3>1, <3>2, InterfacesAssumption
    <3>4. Len(ads) = 1 /\ ads[1] \in S
      <4>1. ads # <<>> /\ Len(ads) <= 1
        BY <1>7, <3>1
      <4> QED BY ONLY <3>3, <4>1, OneElement
    <3>5. Ipv4(ads[1])
      BY <3>1, <3>2, <3>4 DEF Ipv4, Mask
    <3> QED BY <3>1, <3>4, <3>5
  <2>2. PICK L \in Nat : L = Len(SelfBits)
    BY SelfBitsTyped
  <2>3. \A d \in D : InetAddresses(interfaces[d]) # <<>> =>
          /\ match[d] \in 0..L
          /\ match[d] > 0 => OnLink(ours(d)) /\ \A n \in 1..match[d] : Agree(ours(d), n)
          /\ OnLink(ours(d)) => \A n \in 1..L : Agree(ours(d), n) => n <= match[d]
          /\ OnLink(ours(d)) /\ ours(d).addr = SelfBits => match[d] = L
    <3> SUFFICES ASSUME NEW d \in D, InetAddresses(interfaces[d]) # <<>>
                 PROVE  /\ match[d] \in 0..L
                        /\ match[d] > 0 => OnLink(ours(d)) /\ \A n \in 1..match[d] : Agree(ours(d), n)
                        /\ OnLink(ours(d)) => \A n \in 1..L : Agree(ours(d), n) => n <= match[d]
                        /\ OnLink(ours(d)) /\ ours(d).addr = SelfBits => match[d] = L
      OBVIOUS
    <3>1. PICK e, ads, a, m : /\ e = interfaces[d] /\ ads = InetAddresses(e) /\ a = ads[1] /\ m = Match(e)
      OBVIOUS
    <3>2. Len(ads) = 1 /\ Ipv4(a) /\ m = match[d] /\ a = ours(d)
      BY <2>1, <3>1
    <3>3. /\ m \in 0..Len(SelfBits)
          /\ m > 0 => OnLink(a) /\ \A n \in 1..m : Agree(a, n)
          /\ OnLink(a) => \A n \in 1..Len(SelfBits) : Agree(a, n) => n <= m
          /\ OnLink(a) /\ a.addr = SelfBits => m = Len(SelfBits)
      BY ONLY <3>1, <3>2, MatchSays
    <3> QED BY <2>2, <3>2, <3>3
  <2>4. InetAddresses(interfaces[f]) # <<>>
    <3>1. InetAddresses(interfaces[f]) = <<>> => match[f] = 0
      BY <1>6, <1>7, MatchNone
    <3> QED BY <1>6, <1>7, <3>1
  <2>5. PICK M : M = match
    OBVIOUS
  <2>6. M[f] \in 0..L /\ M[f] # 0 /\ M[f] # L /\ \A j \in D : M[j] <= M[f]
    BY <1>6, <1>7, <2>2, <2>3, <2>4, <2>5
  <2>7. OnLink(ours(f)) /\ \A n \in 1..M[f] : Agree(ours(f), n)
    <3>1. M[f] > 0
      BY <2>6
    <3> QED BY <1>6, <1>7, <2>3, <2>4, <2>5, <3>1
  <2>8. f \in usable
    BY <1>6, <1>7, <2>4, <2>7
  <2>9. ASSUME NEW d \in usable
        PROVE  /\ ours(d).addr # SelfBits
               /\ \A n \in 1..Len(SelfBits) : Agree(ours(d), n) => Agree(ours(f), n)
    <3>1. d \in D /\ M[d] \in 0..L /\ M[d] <= M[f]
      BY <2>3, <2>5, <2>6, <2>9
    <3>2. ours(d).addr # SelfBits
      <4>1. ours(d).addr = SelfBits => M[d] = L
        BY <2>3, <2>5, <2>9
      <4> QED BY <2>6, <3>1, <4>1
    <3>3. ASSUME NEW n \in 1..L, Agree(ours(d), n) PROVE Agree(ours(f), n)
      <4>1. n <= M[d]
        BY <2>3, <2>5, <2>9, <3>3
      <4>2. n \in 1..M[f]
        BY <2>6, <3>1, <3>3, <4>1
      <4> QED BY <2>7, <4>2
    <3> QED BY <2>2, <3>2, <3>3
  <2> QED BY <2>8, <2>9
<1> QED BY <1>5, <1>7

-----------------------------------------------------------------------------
(* The types *)

TypeInv ==
  /\ app \in Apps
  /\ pc \in {"open", "init", "failed", "ping", "poll", "null", "overrun"}
  /\ pc = "open" => interfaces \in InterfaceLists
  /\ if_name \in Nat
  /\ subsec \in 0..(TicksPerSecond - 1)
  /\ rxbuf.data \in Nat /\ rxbuf.len \in Nat
  /\ MapInv(udp_table, Ports, {"udp_handler"}, 1)
  /\ BestInterface

LEMMA TypeInit == Init => TypeInv
<1> SUFFICES ASSUME Init PROVE TypeInv
  OBVIOUS
<1>1. /\ app \in Apps /\ pc = "open" /\ interfaces \in InterfaceLists /\ if_name = 0
      /\ rxbuf = [len |-> 0, data |-> 0, payload |-> SelfIp] /\ subsec = 0
      /\ udp_table = MapInit(Cardinality(Ports), 0)
  BY DEF Init
<1>2. MapInv(udp_table, Ports, {"udp_handler"}, 1)
  <2>1. Cardinality(Ports) \in Nat /\ 0 \in Nat
    BY PortsAssumption, FS_CardinalityType
  <2> QED BY <1>1, <2>1, NewMap
<1>3. 0 \in 0..(TicksPerSecond - 1)
  BY PingsAssumption
<1> QED BY <1>1, <1>2, <1>3 DEF TypeInv, BestInterface

LEMMA OpenTypes == TypeInv /\ driver_open => TypeInv'
<1> SUFFICES ASSUME TypeInv, driver_open PROVE TypeInv'
  OBVIOUS
<1>1. /\ pc = "open" /\ interfaces \in InterfaceLists
      /\ if_name' \in {0, driver_find}
      /\ pc' = IF if_name' = 0 THEN "failed" ELSE "init"
      /\ UNCHANGED <<app, interfaces, udp_table, rxbuf, subsec>>
  BY DEF TypeInv, driver_open
<1>2. PICK f : f = if_name'
  OBVIOUS
<1>3. f # 0 => f = driver_find
  BY <1>1, <1>2
<1>4. if_name' \in Nat
  BY <1>1, <1>2, <1>3, FoundIsBest
<1>5. BestInterface'
  <2>1. CASE f = 0
    BY <1>1, <1>2, <2>1 DEF BestInterface
  <2>2. CASE f # 0
    <3>1. LET single == \A d \in DOMAIN interfaces : Len(InetAddresses(interfaces[d])) <= 1
              ours(d) == InetAddresses(interfaces[d])[1]
              usable == {d \in DOMAIN interfaces : InetAddresses(interfaces[d]) # <<>> /\ OnLink(ours(d))}
          IN  single =>
                /\ f \in usable
                /\ \A d \in usable :
                     /\ ours(d).addr # SelfBits
                     /\ \A n \in 1..Len(SelfBits) : Agree(ours(d), n) => Agree(ours(f), n)
      BY <1>1, <1>3, <2>2, FoundIsBest
    <3> QED BY <1>1, <1>2, <3>1 DEF BestInterface
  <2> QED BY <2>1, <2>2
<1> QED BY <1>1, <1>4, <1>5 DEF TypeInv

LEMMA NetInitTypes == TypeInv /\ net_init => TypeInv'
<1> SUFFICES ASSUME TypeInv, net_init PROVE TypeInv'
  OBVIOUS
<1>1. /\ rxbuf' = buf_init(rxbuf, FrameMax) /\ pc' = LoopStart(target) /\ if_name' = 0
      /\ UNCHANGED <<app, subsec>>
      /\ udp_table' \in {udp_table, MapSet(udp_table, ServerPort, "udp_handler", Stamp)}
  BY DEF net_init
<1>2. pc' \in {"ping", "poll"}
  BY <1>1, LoopStarts
<1>3. rxbuf'.data \in Nat /\ rxbuf'.len \in Nat
  BY <1>1, LengthsAssumption, OriginInside DEF buf_init, TypeInv
<1>4. MapInv(udp_table', Ports, {"udp_handler"}, 1)
  <2>1. PICK w : w = udp_table'
    OBVIOUS
  <2>2. PICK K, V, v : K = Ports /\ V = {"udp_handler"} /\ v = "udp_handler"
    OBVIOUS
  <2>3. MapInv(udp_table, K, V, 1) /\ ServerPort \in K /\ v \in V
    BY <2>2, PortsAssumption DEF TypeInv
  <2>4. w = udp_table \/ AfterSet(udp_table, ServerPort, v, 1, w)
    BY <1>1, <2>1, <2>2 DEF AfterSet, Stamp
  <2>5. MapInv(w, K, V, 1)
    BY <2>3, <2>4, SetPuts DEF Put
  <2> QED BY <2>1, <2>2, <2>5
<1>5. BestInterface'
  BY <1>2 DEF BestInterface
<1> QED BY <1>1, <1>2, <1>3, <1>4, <1>5 DEF TypeInv

LEMMA PollTypes == Inv /\ TypeInv /\ net_poll => TypeInv'
<1> SUFFICES ASSUME Inv, TypeInv, net_poll PROVE TypeInv'
  OBVIOUS
<1>1. /\ pc = "poll" /\ UNCHANGED <<app, interfaces, if_name, udp_table, subsec>>
      /\ rxbuf.data \in Nat /\ rxbuf.len \in Nat
  BY DEF net_poll, setup, TypeInv
<1>2. pc' \in {"ping", "poll", "null", "overrun"} /\ rxbuf'.data \in Nat /\ rxbuf'.len \in Nat
  <2>1. ASSUME NEW f \in Arrivals, driver_recv(f)
        PROVE  pc' \in {"ping", "poll", "null", "overrun"} /\ rxbuf'.data \in Nat /\ rxbuf'.len \in Nat
    <3>1. PICK b : b = [len |-> Length(f), data |-> rxbuf.data, payload |-> f.src]
      OBVIOUS
    <3>2. EthLen <= Length(f) /\ Length(f) \in Nat
      BY LengthsAssumption DEF Length
    <3>3. CASE InArray(b)
      <4>1. ethernet_in(b, f)
        BY <2>1, <3>1, <3>3 DEF driver_recv
      <4>2. b \in Bufs({f.src}) /\ EthLen <= b.len
        BY <1>1, <3>1, <3>2 DEF Bufs
      <4>3. Ended(b.data, Headers, b.payload)
        BY <2>1, <4>1, <4>2, ArrivalsStated, EthernetInEnds
      <4> QED BY <1>1, <4>3 DEF Ended
    <3>4. CASE ~InArray(b)
      <4>1. pc' = "overrun" /\ UNCHANGED rxbuf
        BY <2>1, <3>1, <3>4 DEF driver_recv
      <4> QED BY <1>1, <4>1
    <3> QED BY <3>3, <3>4
  <2>2. CASE pc' = LoopStart(target) /\ UNCHANGED rxbuf
    BY <1>1, <2>2, LoopStarts
  <2> QED BY <2>1, <2>2 DEF net_poll
<1>3. BestInterface'
  BY <1>2 DEF BestInterface
<1> QED BY <1>1, <1>2, <1>3 DEF TypeInv

LEMMA OthersTypes ==
  TypeInv /\ (ping_req \/ Tick \/ \E port \in Ports : udp_open(port) \/ udp_close(port)) => TypeInv'
<1> SUFFICES ASSUME TypeInv, ping_req \/ Tick \/ \E port \in Ports : udp_open(port) \/ udp_close(port)
             PROVE  TypeInv'
  OBVIOUS
<1>1. CASE ping_req
  <2>1. UNCHANGED <<app, interfaces, if_name, udp_table, rxbuf, subsec>>
    BY <1>1 DEF ping_req, setup
  <2>2. pc' \in {"ping", "poll", "null"}
    BY <1>1, LoopStarts DEF ping_req
  <2>3. BestInterface'
    BY <2>2 DEF BestInterface
  <2> QED BY <2>1, <2>2, <2>3 DEF TypeInv
<1>2. CASE Tick
  <2>1. /\ UNCHANGED <<app, pc, interfaces, if_name, udp_table, rxbuf>>
        /\ pc \in {"ping", "poll"} /\ subsec' = (subsec + 1) % TicksPerSecond
    BY <1>2 DEF Tick, setup
  <2>2. subsec' \in 0..(TicksPerSecond - 1)
    <3>1. PICK t \in Nat \ {0}, s \in Nat : t = TicksPerSecond /\ s = subsec + 1
      BY PingsAssumption DEF TypeInv
    <3>2. s % t \in 0..(t - 1)
      BY <3>1
    <3> QED BY <2>1, <3>1, <3>2
  <2>3. BestInterface'
    BY <2>1 DEF BestInterface
  <2> QED BY <2>1, <2>2, <2>3 DEF TypeInv
<1>3. ASSUME NEW port \in Ports, udp_open(port) \/ udp_close(port) PROVE TypeInv'
  <2>1. /\ UNCHANGED <<app, pc, interfaces, if_name, rxbuf, subsec>> /\ pc = "poll"
        /\ udp_table' \in {MapSet(udp_table, port, "udp_handler", 1), MapDelete(udp_table, port, 1)}
    BY <1>3 DEF udp_open, udp_close, setup, Stamp
  <2>2. PICK w, K, V, v : w = udp_table' /\ K = Ports /\ V = {"udp_handler"} /\ v = "udp_handler"
    OBVIOUS
  <2>3. MapInv(udp_table, K, V, 1) /\ port \in K /\ v \in V
    BY <1>3, <2>2 DEF TypeInv
  <2>4. AfterSet(udp_table, port, v, 1, w) \/ AfterDelete(udp_table, port, 1, w)
    BY <2>1, <2>2 DEF AfterSet, AfterDelete
  <2>5. MapInv(w, K, V, 1)
    <3>1. AfterSet(udp_table, port, v, 1, w) => MapInv(w, K, V, 1)
      BY <2>3, SetPuts DEF Put
    <3>2. AfterDelete(udp_table, port, 1, w) => MapInv(w, K, V, 1)
      <4>1. 1 \in Nat \ {0}
        OBVIOUS
      <4> QED BY <2>3, <4>1, MapDeleteEffect DEF Kept
    <3> QED BY <2>4, <3>1, <3>2
  <2>6. BestInterface'
    BY <2>1 DEF BestInterface
  <2> QED BY <2>1, <2>2, <2>5, <2>6 DEF TypeInv
<1> QED BY <1>1, <1>2, <1>3

THEOREM TypeInvariance == Spec => []TypeInv
<1>1. Inv /\ TypeInv /\ [Next]_vars => TypeInv'
  <2> SUFFICES ASSUME Inv, TypeInv, [Next]_vars PROVE TypeInv'
    OBVIOUS
  <2>1. CASE UNCHANGED vars
    BY <2>1 DEF vars, setup, TypeInv, BestInterface
  <2> QED BY <2>1, OpenTypes, NetInitTypes, PollTypes, OthersTypes DEF Next
<1> QED BY <1>1, TypeInit, Invariance, PTL DEF Spec

\* The interface that is opened is the best there is, for every list of
\* interfaces with one IPv4 address each, every own address and every netmask.
THEOREM InterfaceIsBest == Spec => []BestInterface
<1>1. TypeInv => BestInterface BY DEF TypeInv
<1> QED BY <1>1, TypeInvariance, PTL

\* Type correctness, for all values of the constants.
THEOREM StackTypes == Spec => []TypeOK
<1>1. TypeInv /\ PingInv => TypeOK
  <2> SUFFICES ASSUME TypeInv, PingInv PROVE TypeOK
    OBVIOUS
  <2>1. MapTyped(udp_table, Ports, {"udp_handler"}, Stamp)
    BY DEF TypeInv, MapInv, Stamp
  <2>2. MapTyped(map_ping_req, 1..PingTestTime,
          [dst_ip : {Targets[t] : t \in DOMAIN Targets}, age : 0..Long, got : -1..Long], Stamp)
    BY DEF PingInv, PingOK, RequestsOK, MapInv, Stamp, RequestRecords, Hosts
  <2>3. \A t \in Pinged : Record(t).ping_time \in 0..PingTestTime
    <3> SUFFICES ASSUME NEW t \in Pinged PROVE Record(t).ping_time \in 0..PingTestTime
      OBVIOUS
    <3>1. PICK p : p = Record(t)
      OBVIOUS
    <3>2. RecordOK(t, p, Counted)
      BY <3>1 DEF PingInv, PingOK, PingAt, Pinged, Record, Stamp
    <3> QED BY <3>1, <3>2 DEF RecordOK, PingRecords
  <2>4. target \in 1..(Len(Targets) + 1) /\ right \cup fooled \subseteq (DOMAIN Targets) \X (1..PingTestTime)
    BY DEF PingInv, PingOK, Counted
  <2> QED BY <2>1, <2>2, <2>3, <2>4 DEF TypeInv, TypeOK
<1> QED BY <1>1, TypeInvariance, PingInvariance, PTL
=============================================================================
