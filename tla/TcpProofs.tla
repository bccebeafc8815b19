----------------------------- MODULE TcpProofs -----------------------------
(***************************************************************************)
(* The TCP server against any hosts, ports, capacities, lengths and        *)
(* sequence space, and any number of losses, repetitions, reorderings,     *)
(* aborts and port closings: the connection table stays well formed, and   *)
(* what is acknowledged was delivered.  And without any of those: what the *)
(* handler hears is the client's stream in order, and all that is consumed *)
(* is acknowledged at once.                                                *)
(***************************************************************************)
EXTENDS Tcp, TimedMapTheorems, SequenceTheorems

-----------------------------------------------------------------------------
(* Positions *)

\* Where a segment of the client's stream may begin, and where it may end.
Cuts == {1 + j * SegLen : j \in 0..(Total \div SegLen)}
Places == Cuts \cup {Total + 2}
At(y) == Add(ClientIsn, y)

LEMMA CutsRange ==
  /\ 1 \in Cuts /\ Total + 1 \in Cuts
  /\ \A y \in Cuts : y \in 1..(Total + 1)
  /\ \A y \in Cuts : y <= Total => y + SegLen \in Cuts
<1>1. PICK n \in Nat : n = Total \div SegLen /\ Total = n * SegLen
  BY StreamAssumption
<1>2. SegLen \in Nat \ {0}
  BY StreamAssumption
<1>3. 0 \in 0..n /\ n \in 0..n /\ 1 + 0 * SegLen = 1
  BY <1>1, <1>2
<1>4. 1 \in Cuts /\ Total + 1 \in Cuts
  BY <1>1, <1>2, <1>3 DEF Cuts
<1>5. ASSUME NEW j \in 0..n
      PROVE  /\ j * SegLen \in Nat /\ j * SegLen <= Total
             /\ j * SegLen < Total => j + 1 \in 0..n /\ (j + 1) * SegLen = j * SegLen + SegLen
  <2>1. j * SegLen \in Nat /\ j * SegLen <= n * SegLen
    BY <1>1, <1>2
  <2>2. (j + 1) * SegLen = j * SegLen + SegLen
    BY <1>2
  <2>3. j * SegLen < Total => j # n
    BY <1>1, <2>1
  <2> QED BY <1>1, <2>1, <2>2, <2>3
<1>6. \A y \in Cuts : \E j \in 0..n : y = 1 + j * SegLen
  BY <1>1 DEF Cuts
<1>7. \A y \in Cuts : y \in 1..(Total + 1)
  BY <1>5, <1>6, StreamAssumption
<1>8. ASSUME NEW y \in Cuts, y <= Total PROVE y + SegLen \in Cuts
  <2>1. PICK j \in 0..n : y = 1 + j * SegLen
    BY <1>6
  <2>2. /\ j * SegLen \in Nat /\ j * SegLen < Total
    BY <1>5, <1>8, <2>1, StreamAssumption
  <2>3. j + 1 \in 0..n /\ y + SegLen = 1 + (j + 1) * SegLen
    BY <1>2, <1>5, <2>1, <2>2
  <2> QED BY <1>1, <2>3 DEF Cuts
<1> QED BY <1>4, <1>7, <1>8

\* Places are numbers of the sequence space, told apart by it.
LEMMA PlacesRange ==
  /\ \A y \in Places : y \in 1..(Total + 2)
  /\ \A y \in 0..(Total + 2) : At(y) \in 0..(SeqMod - 1) /\ (At(y) - ClientIsn) % SeqMod = y
<1>1. \A y \in Places : y \in 1..(Total + 2)
  BY CutsRange, StreamAssumption DEF Places
<1>2. ASSUME NEW y \in 0..(Total + 2)
      PROVE  At(y) \in 0..(SeqMod - 1) /\ (At(y) - ClientIsn) % SeqMod = y
  <2>1. /\ SeqMod \in Nat \ {0} /\ y \in 0..(SeqMod - 1) /\ ClientIsn \in 0..(SeqMod - 1)
    BY StreamAssumption
  <2>2. CASE ClientIsn + y < SeqMod
    <3>1. At(y) = ClientIsn + y
      BY <2>1, <2>2 DEF At, Add
    <3>2. At(y) - ClientIsn = y
      BY <2>1, <3>1
    <3>3. y % SeqMod = y
      BY <2>1
    <3> QED BY <2>1, <2>2, <3>1, <3>2, <3>3
  <2>3. CASE ClientIsn + y >= SeqMod
    <3>1. (ClientIsn + y) % SeqMod = ClientIsn + y - SeqMod
      BY <2>1, <2>3
    <3>2. At(y) = ClientIsn + y - SeqMod
      BY <3>1 DEF At, Add
    <3>3. At(y) - ClientIsn = y - SeqMod
      BY <2>1, <3>2
    <3>4. (y - SeqMod) % SeqMod = y
      BY <2>1
    <3> QED BY <2>1, <2>3, <3>2, <3>3, <3>4
  <2> QED BY <2>1, <2>2, <2>3
<1> QED BY <1>1, <1>2

\* Two places with one number are one place.
LEMMA PlaceOnce ==
  ASSUME NEW x \in 0..(Total + 2), NEW y \in 0..(Total + 2), At(x) = At(y)
  PROVE  x = y
BY PlacesRange

\* Numbers go on from a place.
LEMMA PlaceNext ==
  ASSUME NEW x \in Nat, NEW n \in Nat, x + n <= Total + 2
  PROVE  Add(At(x), n) = At(x + n)
<1>1. /\ SeqMod \in Nat \ {0} /\ ClientIsn \in 0..(SeqMod - 1) /\ x + n < SeqMod
  BY StreamAssumption
<1>2. CASE ClientIsn + x < SeqMod
  <2>1. At(x) = ClientIsn + x
    BY <1>1, <1>2 DEF At, Add
  <2> QED BY <1>1, <2>1 DEF At, Add
<1>3. CASE ClientIsn + x >= SeqMod
  <2>1. At(x) = ClientIsn + x - SeqMod
    <3>1. (ClientIsn + x) % SeqMod = ClientIsn + x - SeqMod
      BY <1>1, <1>3
    <3> QED BY <3>1 DEF At, Add
  <2>2. Add(At(x), n) = ClientIsn + x - SeqMod + n
    <3>1. At(x) + n \in 0..(SeqMod - 1)
      BY <1>1, <1>3, <2>1
    <3>2. (At(x) + n) % SeqMod = At(x) + n
      BY <1>1, <3>1
    <3> QED BY <2>1, <3>2 DEF Add
  <2>3. At(x + n) = ClientIsn + (x + n) - SeqMod
    <3>1. (ClientIsn + (x + n)) % SeqMod = ClientIsn + (x + n) - SeqMod
      BY <1>1, <1>3
    <3> QED BY <3>1 DEF At, Add
  <2> QED BY <1>1, <2>2, <2>3
<1> QED BY <1>1, <1>2, <1>3

-----------------------------------------------------------------------------
(* Segments *)

ClientSegments ==
  {ClientSegment(y) : y \in {0} \cup Cuts} \cup {BareAck(y) : y \in {0} \cup Places}
    \cup {Abort(y) : y \in {0} \cup Places}

LEMMA Flight ==
  ASSUME NEW n \in Nat
  PROVE  /\ bytes_in_flight(n, {"ACK"}) = n
         /\ bytes_in_flight(n, {"SYN"}) = n + 1
         /\ bytes_in_flight(n, {"SYN", "ACK"}) = n + 1
         /\ bytes_in_flight(n, {"ACK", "FIN"}) = n + 1
<1>1. /\ {"ACK"} \cap {"SYN", "FIN"} = {}
      /\ {"SYN"} \cap {"SYN", "FIN"} = {"SYN"}
      /\ {"SYN", "ACK"} \cap {"SYN", "FIN"} = {"SYN"}
      /\ {"ACK", "FIN"} \cap {"SYN", "FIN"} = {"FIN"}
  OBVIOUS
<1>2. Cardinality({}) = 0 /\ Cardinality({"SYN"}) = 1 /\ Cardinality({"FIN"}) = 1
  BY FS_EmptySet, FS_Singleton
<1> QED BY <1>1, <1>2 DEF bytes_in_flight

\* Where a client stands once it has sent the segment at y.
LEMMA AfterPlace ==
  /\ After(0) = 1
  /\ \A y \in Cuts : After(y) \in Places /\ After(y) = IF y <= Total THEN y + SegLen ELSE y + 1
<1>1. SegLen \in Nat \ {0} /\ Total \in Nat
  BY StreamAssumption
<1>2. After(0) = 1
  <2>1. ClientSegment(0).len = 0 /\ ClientSegment(0).flags = {"SYN"}
    BY <1>1 DEF ClientSegment
  <2> QED BY <2>1, Flight DEF After
<1>3. ASSUME NEW y \in Cuts
      PROVE  After(y) \in Places /\ After(y) = IF y <= Total THEN y + SegLen ELSE y + 1
  <2>1. y \in 1..(Total + 1)
    BY CutsRange
  <2>2. CASE y <= Total
    <3>1. ClientSegment(y).len = SegLen /\ ClientSegment(y).flags = {"ACK"}
      BY <1>1, <2>1, <2>2 DEF ClientSegment
    <3>2. After(y) = y + SegLen
      BY <1>1, <3>1, Flight DEF After
    <3> QED BY <2>2, <3>2, CutsRange DEF Places
  <2>3. CASE y = Total + 1
    <3>1. ClientSegment(y).len = 0 /\ ClientSegment(y).flags = {"ACK", "FIN"}
      BY <1>1, <2>1, <2>3 DEF ClientSegment
    <3>2. After(y) = y + 1
      BY <1>1, <3>1, Flight DEF After
    <3> QED BY <1>1, <2>3, <3>2 DEF Places
  <2> QED BY <1>1, <2>1, <2>2, <2>3
<1> QED BY <1>2, <1>3

\* What a segment of a client says, unless it is a RST: it begins at a place, the
\* SYN at 0, ends at a place, and carries the bytes from the one to the other.
LEMMA SegmentSays ==
  ASSUME NEW seg \in ClientSegments
  PROVE  /\ seg \in Segments
         /\ "RST" \notin seg.flags =>
              \E y \in {0} \cup Places, n \in Nat :
                /\ seg.seq = At(y) /\ n = bytes_in_flight(seg.len, seg.flags)
                /\ "SYN" \in seg.flags => y = 0
                /\ y # 0 => y + n \in Places
                /\ seg.len > 0 => seg.from = y
                /\ \A p \in 1..Total : y <= p /\ p < y + n => p < y + seg.len
<1>0. /\ SegLen \in Nat \ {0} /\ Total \in Nat /\ 0 \in 0..(Total + 2)
      /\ \A y \in {0} \cup Places : y \in 0..(Total + 2) /\ At(y) \in 0..(SeqMod - 1)
  BY StreamAssumption, PlacesRange
<1>1. CASE \E y \in {0} \cup Cuts : seg = ClientSegment(y)
  <2>1. PICK y \in {0} \cup Cuts : seg = ClientSegment(y)
    BY <1>1
  <2>2. y \in {0} \cup Places /\ seg.seq = At(y)
    BY <2>1 DEF ClientSegment, Places, At
  <2>3. CASE y = 0
    <3>1. seg = [flags |-> {"SYN"}, seq |-> At(0), len |-> 0, from |-> 0]
      BY <1>0, <2>1, <2>3 DEF ClientSegment, At
    <3>2. bytes_in_flight(seg.len, seg.flags) = 1
      BY <3>1, Flight
    <3> QED BY <1>0, <2>2, <2>3, <3>1, <3>2 DEF Segments, Flags
  <2>4. CASE y \in Cuts /\ y <= Total
    <3>0. y \in 1..Total /\ y # 0 /\ y <= Total
      BY <1>0, <2>4, CutsRange
    <3>1. seg = [flags |-> {"ACK"}, seq |-> At(y), len |-> SegLen, from |-> y]
      BY ONLY <2>1, <3>0 DEF ClientSegment, At
    <3>2. bytes_in_flight(seg.len, seg.flags) = SegLen
      BY <1>0, <3>1, Flight
    <3>3. y + SegLen \in Places
      BY <2>4, CutsRange DEF Places
    <3> QED BY <1>0, <2>2, <2>4, <3>0, <3>1, <3>2, <3>3 DEF Segments, Flags
  <2>5. CASE y \in Cuts /\ y = Total + 1
    <3>0. y \notin 1..Total /\ y # 0 /\ ~ (y <= Total)
      BY <1>0, <2>5
    <3>1. seg = [flags |-> {"ACK", "FIN"}, seq |-> At(y), len |-> 0, from |-> 0]
      BY ONLY <2>1, <3>0 DEF ClientSegment, At
    <3>2. bytes_in_flight(seg.len, seg.flags) = 1
      BY <3>1, Flight
    <3>3. y + 1 \in Places
      BY <1>0, <2>5 DEF Places
    <3> QED BY <1>0, <2>2, <2>5, <3>1, <3>2, <3>3 DEF Segments, Flags
  <2> QED BY <1>0, <2>1, <2>3, <2>4, <2>5, CutsRange
<1>2. CASE \E y \in {0} \cup Places : seg = BareAck(y)
  <2>1. PICK y \in {0} \cup Places : seg = BareAck(y)
    BY <1>2
  <2>2. seg = [flags |-> {"ACK"}, seq |-> At(y), len |-> 0, from |-> 0]
    BY <2>1 DEF BareAck, At
  <2>3. bytes_in_flight(seg.len, seg.flags) = 0
    BY <2>2, Flight
  <2> QED BY <1>0, <2>2, <2>3 DEF Segments, Flags
<1>3. CASE \E y \in {0} \cup Places : seg = Abort(y)
  <2>1. PICK y \in {0} \cup Places : seg = Abort(y)
    BY <1>3
  <2>2. seg = [flags |-> {"RST"}, seq |-> At(y), len |-> 0, from |-> 0]
    BY <2>1 DEF Abort, At
  <2> QED BY <1>0, <2>2 DEF Segments, Flags
<1> QED BY <1>1, <1>2, <1>3 DEF ClientSegments

-----------------------------------------------------------------------------
(* The invariant *)

ServerSegments ==
  {s \in [flags : SUBSET {"SYN", "ACK", "FIN", "UNREACH"}, seq : 0..(SeqMod - 1),
          ack : 0..(SeqMod - 1), len : Nat, from : Nat] :
     "UNREACH" \in s.flags \/ \E y \in Places : s.ack = At(y)}

Before(x) == {p \in 1..Total : p < x}

\* A connection that was accepted acknowledges up to a place of the client's
\* stream, and all before it was heard.
ConnOK(k, conn) ==
  conn.state # "LISTEN" =>
    \E x \in Places : /\ conn.ack = At(x)
                      /\ k[2] \in tcp_handler_table => Before(x) \subseteq Heard(k)

ConnsOK ==
  \A k \in Keys : MapHas(tcp_conn_table, k, Time) => ConnOK(k, SlotOf(tcp_conn_table, k, Time).val)

Clients ==
  {c \in [state : {"closed", "syn_sent", "open", "done", "aborted"}, snd : {0} \cup Places,
          una : {0} \cup Places, rcv : 0..(SeqMod - 1), read : Seq(Nat)] :
     c.state = "closed" => c.snd = 0}

ServerTyped ==
  /\ tcp_handler_table \subseteq Ports
  /\ MapInv(tcp_conn_table, Keys, Conns, Time)
  /\ heard \in [Keys -> Seq(Nat)]
  /\ said \in [Keys -> Nat]
  /\ incarnations \in [Keys -> Nat]
  /\ crashed \in BOOLEAN

\* The inductive invariant.
Inv ==
  /\ ServerTyped
  /\ toServer \in [Keys -> Seq(ClientSegments)]
  /\ toClient \in [Keys -> Seq(ServerSegments)]
  /\ client \in [Keys -> Clients]
  /\ upsets \in 0..MaxUpsets
  /\ ConnsOK
  /\ \A k \in Keys : client[k].state = "closed" => toServer[k] = <<>> /\ toClient[k] = <<>>

LEMMA InvShows == Inv => TypeOK /\ AckedWasDelivered
<1> SUFFICES ASSUME Inv PROVE TypeOK /\ AckedWasDelivered
  OBVIOUS
<1>1. TypeOK
  <2>1. ClientSegments \subseteq Segments
    BY SegmentSays
  <2>2. Seq(ClientSegments) \subseteq Seq(Segments)
    BY <2>1
  <2>3. toServer \in [Keys -> Seq(Segments)]
    BY <2>2 DEF Inv
  <2> QED BY <2>3 DEF Inv, ServerTyped, TypeOK
<1>2. ASSUME NEW k \in Keys, k[2] \in tcp_handler_table
      PROVE  Acknowledged(k) \subseteq Heard(k)
  <2>1. CASE ~ (Connected(k) /\ Conn(k).state # "LISTEN")
    BY <2>1 DEF Acknowledged
  <2>2. CASE Connected(k) /\ Conn(k).state # "LISTEN"
    <3>1. Conn(k) = SlotOf(tcp_conn_table, k, Time).val /\ MapHas(tcp_conn_table, k, Time)
      BY <2>2 DEF Conn, Connected, MapGet, SlotOf
    <3>2. PICK x \in Places : Conn(k).ack = At(x) /\ Before(x) \subseteq Heard(k)
      BY <1>2, <2>2, <3>1 DEF Inv, ConnsOK, ConnOK
    <3>3. (Conn(k).ack - ClientIsn) % SeqMod = x
      BY <3>2, PlacesRange, StreamAssumption
    <3> QED BY <2>2, <3>2, <3>3 DEF Acknowledged, Before
  <2> QED BY <2>1, <2>2
<1> QED BY <1>1, <1>2 DEF AckedWasDelivered

-----------------------------------------------------------------------------
(* tcp_in *)

FreshOK == Fresh \in Conns /\ \A k : ConnOK(k, Fresh)

LEMMA FreshConn == FreshOK
  BY StreamAssumption DEF FreshOK, Fresh, Conns, ConnOK

\* tcp_get_connection adds at most an unaccepted connection.
LEMMA GetConnection ==
  ASSUME ServerTyped, ConnsOK, NEW k \in Keys, NEW t, t = tcp_get_connection(k)
  PROVE  /\ MapInv(t, Keys, Conns, Time)
         /\ \A q \in Keys : MapHas(t, q, Time) => ConnOK(q, SlotOf(t, q, Time).val)
<1>0. Time \in Nat \ {0} /\ MapInv(tcp_conn_table, Keys, Conns, Time) /\ Fresh \in Conns
  BY FreshConn DEF ServerTyped, FreshOK, Time
<1>1. CASE MapHas(tcp_conn_table, k, Time)
  <2>1. t = tcp_conn_table
    BY <1>1 DEF tcp_get_connection
  <2> QED BY <1>0, <2>1 DEF ConnsOK
<1>2. CASE ~ MapHas(tcp_conn_table, k, Time)
  <2>1. AfterSet(tcp_conn_table, k, Fresh, Time, t)
    BY <1>2 DEF tcp_get_connection, AfterSet
  <2>2. /\ Kept(Keys, Conns, tcp_conn_table, t, Time)
        /\ Others(Keys, {k}, tcp_conn_table, t, Time)
    BY ONLY <1>0, <2>1, k \in Keys, MapSetEffect
  <2>3. MapHas(t, k, Time) => SlotOf(t, k, Time) = Entry(k, Fresh, Time)
    <3> HAVE MapHas(t, k, Time)
    <3> QED BY ONLY <1>0, <2>1, k \in Keys, MapHas(t, k, Time), SetShows
  <2>4. ASSUME NEW q \in Keys, MapHas(t, q, Time)
        PROVE  ConnOK(q, SlotOf(t, q, Time).val)
    <3>1. CASE q = k
      BY <2>3, <2>4, <3>1, FreshConn DEF Entry, FreshOK
    <3>2. CASE q # k
      <4>1. MapHas(tcp_conn_table, q, Time) /\ SlotOf(t, q, Time) = SlotOf(tcp_conn_table, q, Time)
        BY <2>2, <2>4, <3>2 DEF Others, SameFor, SlotOf
      <4> QED BY <4>1 DEF ConnsOK
    <3> QED BY <3>1, <3>2
  <2> QED BY <2>2, <2>4 DEF Kept
<1> QED BY <1>1, <1>2

\* A new value under k, admissible for it, and nothing less heard by the others.
LEMMA Revised ==
  ASSUME NEW t, MapInv(t, Keys, Conns, Time), NEW k \in Keys,
         NEW conn \in Conns, NEW w, AfterRevise(t, k, conn, Time, w)
  PROVE  /\ MapInv(w, Keys, Conns, Time)
         /\ \A q \in Keys : MapHas(w, q, Time) =>
              /\ MapHas(t, q, Time)
              /\ SlotOf(w, q, Time).val = IF q = k THEN conn ELSE SlotOf(t, q, Time).val
<1>0. Time \in Nat \ {0}
  BY DEF Time
<1>1. CASE MapHas(t, k, Time)
  <2>1. /\ Kept(Keys, Conns, t, w, Time)
        /\ Stores(w, k, Entry(k, conn, t.slots[Least(Where(t, k, Time))].time), Time)
        /\ Others(Keys, {k}, t, w, Time)
    BY ONLY <1>0, <1>1, MapInv(t, Keys, Conns, Time), k \in Keys, conn \in Conns,
            AfterRevise(t, k, conn, Time, w), MapReviseEffect
  <2>2. SlotOf(w, k, Time).val = conn
    BY <2>1 DEF Stores, SlotOf, Entry
  <2>3. \A q \in Keys : q # k /\ MapHas(w, q, Time) =>
          MapHas(t, q, Time) /\ SlotOf(w, q, Time) = SlotOf(t, q, Time)
    BY <2>1 DEF Others, SameFor, SlotOf
  <2> QED BY <1>1, <2>1, <2>2, <2>3 DEF Kept
<1>2. CASE ~ MapHas(t, k, Time)
  <2>1. w = t
    BY <1>2 DEF AfterRevise, MapRevise
  <2> QED BY <1>2, <2>1
<1> QED BY <1>1, <1>2

LEMMA Deleted ==
  ASSUME NEW t, MapInv(t, Keys, Conns, Time), NEW k \in Keys,
         NEW w, AfterDelete(t, k, Time, w)
  PROVE  /\ MapInv(w, Keys, Conns, Time)
         /\ ~ MapHas(w, k, Time)
         /\ \A q \in Keys : MapHas(w, q, Time) =>
              MapHas(t, q, Time) /\ SlotOf(w, q, Time) = SlotOf(t, q, Time)
<1>0. Time \in Nat \ {0}
  BY DEF Time
<1>1. /\ Kept(Keys, Conns, t, w, Time)
      /\ ~ MapHas(w, k, Time)
      /\ Others(Keys, {k}, t, w, Time)
  BY ONLY <1>0, MapInv(t, Keys, Conns, Time), k \in Keys, AfterDelete(t, k, Time, w),
          MapDeleteEffect
<1>2. \A q \in Keys : q # k /\ MapHas(w, q, Time) =>
        MapHas(t, q, Time) /\ SlotOf(w, q, Time) = SlotOf(t, q, Time)
  BY <1>1 DEF Others, SameFor, SlotOf
<1> QED BY <1>1, <1>2 DEF Kept

\* The bytes of a segment, and those heard after it.
DataOf(seg) == {seg.from + i - 1 : i \in 1..seg.len}
Accepts(conn) == conn.state = "LISTEN"
HeardBefore(k, conn) == IF Accepts(conn) THEN {} ELSE Heard(k)

\* Step 1 of tcp_in: the place a connection acknowledges up to moves with what
\* the segment brings.
LEMMA Step1 ==
  ASSUME NEW k, NEW conn \in Conns, ConnOK(k, conn), NEW seg \in ClientSegments,
         "RST" \notin seg.flags, ~ Ignored(conn, seg), ~ OutOfOrder(conn, seg),
         NEW iss \in 0..(SeqMod - 1), NEW one, one = Advanced(conn, seg, iss)
  PROVE  /\ one \in Conns /\ one.state # "LISTEN"
         /\ \E x \in Places :
              /\ one.ack = At(x)
              /\ k[2] \in tcp_handler_table => Before(x) \subseteq HeardBefore(k, conn) \cup DataOf(seg)
<1>0. /\ conn = [state |-> conn.state, not_send_empty_ack |-> conn.not_send_empty_ack,
                 seq |-> conn.seq, ack |-> conn.ack]
      /\ conn.state \in {"LISTEN", "SYN_RECEIVED", "ESTABLISHED", "LAST_ACK"}
      /\ conn.not_send_empty_ack \in BOOLEAN
      /\ conn.seq \in 0..(SeqMod - 1) /\ conn.ack \in 0..(SeqMod - 1)
  BY DEF Conns
<1>1. PICK y \in {0} \cup Places, n \in Nat :
                /\ seg.seq = At(y) /\ n = bytes_in_flight(seg.len, seg.flags)
                /\ "SYN" \in seg.flags => y = 0
                /\ y # 0 => y + n \in Places
                /\ seg.len > 0 => seg.from = y
                /\ \A p \in 1..Total : y <= p /\ p < y + n => p < y + seg.len
  BY SegmentSays
<1>2. /\ \A x \in {0} \cup Places : x \in 0..(Total + 2) /\ At(x) \in 0..(SeqMod - 1)
      /\ \A x \in Places : x \in 1..(Total + 2)
      /\ Total \in Nat
  BY PlacesRange, StreamAssumption
<1>3. seg.len \in Nat /\ seg.from \in Nat
  BY SegmentSays DEF Segments
<1>4. CASE conn.state = "LISTEN"
  <2>1. "SYN" \in seg.flags
    BY <1>4 DEF Ignored
  <2>2. y = 0
    BY <1>1, <2>1
  <2>3. Add(seg.seq, 1) = At(1)
    <3>1. Add(At(0), 1) = At(0 + 1)
      BY <1>2, PlaceNext
    <3> QED BY <1>1, <2>2, <3>1
  <2>4. one = [state |-> "SYN_RECEIVED", not_send_empty_ack |-> conn.not_send_empty_ack,
               seq |-> iss, ack |-> At(1)]
    BY ONLY <1>0, <1>4, <2>3, one = Advanced(conn, seg, iss) DEF Advanced
  <2>5. 1 \in Places /\ Before(1) = {}
    BY CutsRange DEF Places, Before
  <2>6. At(1) \in 0..(SeqMod - 1)
    BY <1>2, <2>5
  <2> QED BY <1>0, <2>4, <2>5, <2>6 DEF Conns
<1>5. ASSUME conn.state # "LISTEN"
      PROVE  \E x \in Places : /\ conn.ack = At(x)
                               /\ k[2] \in tcp_handler_table => Before(x) \subseteq HeardBefore(k, conn)
  BY <1>5 DEF ConnOK, HeardBefore, Accepts
<1>6. CASE conn.state = "SYN_RECEIVED"
  <2>1. one = [state |-> "ESTABLISHED", not_send_empty_ack |-> conn.not_send_empty_ack,
               seq |-> conn.seq, ack |-> conn.ack]
    BY ONLY <1>0, <1>6, one = Advanced(conn, seg, iss) DEF Advanced
  <2> QED BY <1>0, <1>5, <1>6, <2>1 DEF Conns
<1>7. CASE conn.state = "LAST_ACK"
  <2>1. one = conn
    BY ONLY <1>7, one = Advanced(conn, seg, iss) DEF Advanced
  <2> QED BY <1>0, <1>5, <1>7, <2>1
<1>8. CASE conn.state = "ESTABLISHED"
  <2>1. PICK x \in Places : /\ conn.ack = At(x)
                            /\ k[2] \in tcp_handler_table => Before(x) \subseteq HeardBefore(k, conn)
    BY <1>5, <1>8
  <2>2. At(y) = At(x)
    BY <1>1, <1>8, <2>1 DEF OutOfOrder
  <2>3. y = x /\ x \in Nat /\ y # 0
    BY <1>2, <2>2, PlaceOnce
  <2>4. y + n \in Places
    BY <1>1, <2>3
  <2>5. Add(conn.ack, n) = At(y + n)
    <3>1. y + n <= Total + 2
      BY <1>2, <2>4
    <3> QED BY <2>1, <2>3, <3>1, PlaceNext
  <2>6. one = [state |-> IF "FIN" \in seg.flags THEN "LAST_ACK" ELSE "ESTABLISHED",
               not_send_empty_ack |-> conn.not_send_empty_ack,
               seq |-> conn.seq, ack |-> At(y + n)]
    BY ONLY <1>0, <1>1, <1>8, <2>5, one = Advanced(conn, seg, iss) DEF Advanced
  <2>7. one.ack = At(y + n) /\ one.state # "LISTEN" /\ one \in Conns
    BY <1>0, <1>2, <2>4, <2>6 DEF Conns
  <2>8. Before(y + n) \subseteq Before(x) \cup DataOf(seg)
    <3> SUFFICES ASSUME NEW p \in 1..Total, p < y + n, ~ (p < x)
                 PROVE  p \in DataOf(seg)
      BY DEF Before
    <3>1. p < y + seg.len /\ y <= p
      BY <1>1, <1>2, <2>3
    <3>2. seg.len > 0 /\ seg.from = y
      BY <1>1, <1>3, <2>3, <3>1
    <3>3. p - y + 1 \in 1..seg.len /\ p = y + (p - y + 1) - 1
      BY <1>3, <2>3, <3>1
    <3> QED BY <3>2, <3>3 DEF DataOf
  <2> QED BY <2>1, <2>4, <2>7, <2>8
<1> QED BY <1>0, <1>4, <1>6, <1>7, <1>8

\* Steps 2 and 3 of tcp_in leave the place alone, and what they send acknowledges it.
LEMMA TcpOut ==
  ASSUME NEW conn \in Conns, NEW flags \in SUBSET {"SYN", "ACK", "FIN"}, NEW len \in Nat,
         NEW from \in Nat, NEW y \in Places, conn.ack = At(y)
  PROVE  tcp_out(conn, flags, len, from) \in ServerSegments
BY DEF tcp_out, ServerSegments, Conns

LEMMA AddRange ==
  ASSUME NEW a \in Nat, NEW n \in Nat
  PROVE  Add(a, n) \in 0..(SeqMod - 1)
BY StreamAssumption DEF Add

LEMMA Step2 ==
  ASSUME NEW one \in Conns, NEW len \in Nat, NEW y \in Places, one.ack = At(y),
         NEW said0 \in Nat, NEW two, two = tcp_send(one, len)
  PROVE  /\ two \in Conns /\ two.state = one.state /\ two.ack = one.ack
         /\ Sent(one, len, said0) \in Seq(ServerSegments)
<1>1. two \in Conns /\ two.state = one.state /\ two.ack = one.ack
  <2>1. Add(one.seq, len) \in 0..(SeqMod - 1)
    BY AddRange, StreamAssumption DEF Conns
  <2> QED BY <2>1 DEF tcp_send, Conns
<1>2. tcp_out(one, {"ACK"}, len, said0) \in ServerSegments
  BY TcpOut
<1> QED BY <1>1, <1>2 DEF Sent

LEMMA Step3 ==
  ASSUME NEW two \in Conns, NEW flags \in SUBSET {"SYN", "ACK", "FIN"}, NEW y \in Places,
         two.ack = At(y), NEW from \in Nat, bytes_in_flight(0, flags) \in Nat,
         NEW three, three = Finished(two, flags, from)
  PROVE  /\ three.conn \in Conns /\ three.conn.state = two.state /\ three.conn.ack = two.ack
         /\ three.out \in Seq(ServerSegments)
<1>1. tcp_out(two, flags, 0, from) \in ServerSegments
  BY TcpOut
<1>2. Add(two.seq, bytes_in_flight(0, flags)) \in 0..(SeqMod - 1)
  BY AddRange, StreamAssumption DEF Conns
<1>3. CASE flags = {}
  <2>1. three = [conn |-> two, out |-> <<>>]
    BY <1>3 DEF Finished
  <2> QED BY <2>1
<1>4. CASE flags # {} /\ flags = {"ACK"} /\ two.not_send_empty_ack
  <2>1. PICK c : c = [two EXCEPT !.not_send_empty_ack = FALSE]
    OBVIOUS
  <2>2. three = [conn |-> c, out |-> <<>>]
    BY <1>4, <2>1 DEF Finished
  <2>3. c \in Conns /\ c.state = two.state /\ c.ack = two.ack
    BY ONLY <2>1, two \in Conns DEF Conns
  <2> QED BY ONLY <2>2, <2>3
<1>5. CASE flags # {} /\ ~ (flags = {"ACK"} /\ two.not_send_empty_ack)
  <2>1. three = [conn |-> [two EXCEPT !.seq = Add(@, bytes_in_flight(0, flags))],
                 out |-> <<tcp_out(two, flags, 0, from)>>]
    BY <1>5 DEF Finished
  <2> QED BY <1>1, <1>2, <2>1 DEF Conns
<1> QED BY <1>3, <1>4, <1>5

LEMMA FlagsOK ==
  ASSUME NEW conn \in Conns, NEW seg, NEW flags, flags = ReplyFlags(conn, seg)
  PROVE  flags \in SUBSET {"SYN", "ACK", "FIN"} /\ bytes_in_flight(0, flags) \in Nat
<1>1. flags \in {{}, {"SYN", "ACK"}, {"ACK", "FIN"}, {"ACK"}}
  BY DEF ReplyFlags, Conns
<1>2. bytes_in_flight(0, {}) = 0
  <2>1. {} \cap {"SYN", "FIN"} = {}
    OBVIOUS
  <2> QED BY <2>1, FS_EmptySet DEF bytes_in_flight
<1> QED BY <1>1, <1>2, Flight

\* A stretch of bytes behind those heard.
Elements(s) == {s[i] : i \in 1..Len(s)}
Run(n, from) == {from + i - 1 : i \in 1..n}
Stretch(s, n, from, d, r) == d = [i \in 1..n |-> from + i - 1] /\ r = s \o d

LEMMA HeardMore ==
  ASSUME NEW s \in Seq(Nat), NEW n \in Nat, NEW from \in Nat,
         NEW d, NEW r, Stretch(s, n, from, d, r)
  PROVE  /\ d \in Seq(Nat) /\ r \in Seq(Nat)
         /\ Elements(d) = Run(n, from) /\ Elements(r) = Elements(s) \cup Run(n, from)
<1>0. d = [i \in 1..n |-> from + i - 1] /\ r = s \o d
  BY DEF Stretch
<1>1. \A i \in 1..n : from + i - 1 \in Nat
  OBVIOUS
<1>2. d \in Seq(Nat) /\ Len(d) = n /\ \A i \in 1..n : d[i] = from + i - 1
  BY <1>0, <1>1
<1>3. /\ r \in Seq(Nat) /\ Len(r) = Len(s) + Len(d)
      /\ \A i \in 1..(Len(s) + Len(d)) : r[i] = IF i <= Len(s) THEN s[i] ELSE d[i - Len(s)]
  BY <1>0, <1>2, ConcatProperties
<1>4. PICK m \in Nat : m = Len(s)
  BY LenProperties
<1>5. /\ Len(r) = m + n
      /\ \A i \in 1..(m + n) : r[i] = IF i <= m THEN s[i] ELSE d[i - m]
      /\ \A i \in 1..n : d[i] = from + i - 1
  BY <1>2, <1>3, <1>4
<1>6. \A i \in 1..n : r[i + m] = from + i - 1 /\ i + m \in 1..(m + n)
  <2> SUFFICES ASSUME NEW i \in 1..n
               PROVE  r[i + m] = from + i - 1 /\ i + m \in 1..(m + n)
    OBVIOUS
  <2>1. i + m \in 1..(m + n) /\ ~ (i + m <= m) /\ (i + m) - m = i
    BY ONLY n \in Nat, m \in Nat, i \in 1..n
  <2> QED BY ONLY <1>5, <2>1, i \in 1..n
<1>7. ASSUME NEW i \in 1..(m + n), ~ (i <= m)
      PROVE  i - m \in 1..n /\ r[i] = from + (i - m) - 1
  <2>1. i - m \in 1..n
    BY ONLY <1>7, n \in Nat, m \in Nat, i \in 1..(m + n)
  <2> QED BY ONLY <1>5, <1>7, <2>1, i \in 1..(m + n)
<1>8. {r[i] : i \in 1..(m + n)} = {s[i] : i \in 1..m} \cup {from + i - 1 : i \in 1..n}
  <2>1. \A i \in 1..(m + n) : r[i] \in {s[j] : j \in 1..m} \cup {from + j - 1 : j \in 1..n}
    <3> SUFFICES ASSUME NEW i \in 1..(m + n)
                 PROVE  r[i] \in {s[j] : j \in 1..m} \cup {from + j - 1 : j \in 1..n}
      OBVIOUS
    <3>1. CASE i <= m
      <4>1. i \in 1..m /\ r[i] = s[i]
        BY ONLY <1>5, <3>1, m \in Nat, n \in Nat, i \in 1..(m + n)
      <4> QED BY <4>1
    <3>2. CASE ~ (i <= m)
      BY <1>7, <3>2
    <3> QED BY <3>1, <3>2
  <2>2. \A i \in 1..m : s[i] \in {r[j] : j \in 1..(m + n)}
    <3> SUFFICES ASSUME NEW i \in 1..m PROVE s[i] \in {r[j] : j \in 1..(m + n)}
      OBVIOUS
    <3>1. i \in 1..(m + n) /\ r[i] = s[i]
      BY ONLY <1>5, m \in Nat, n \in Nat, i \in 1..m
    <3> QED BY <3>1
  <2>3. \A i \in 1..n : from + i - 1 \in {r[j] : j \in 1..(m + n)}
    BY <1>6
  <2> QED BY ONLY <2>1, <2>2, <2>3
<1>9. Elements(d) = Run(n, from)
  <2>1. \A i \in 1..n : d[i] = from + i - 1
    BY <1>5
  <2> QED BY ONLY <1>2, <2>1 DEF Elements, Run
<1> QED BY ONLY <1>2, <1>3, <1>4, <1>5, <1>8, <1>9 DEF Elements, Run

\* What a segment does to a connection and to what is known of it, when no early
\* return is taken.
LEMMA ProcessEffect ==
  ASSUME Inv, NEW k \in Keys, NEW seg \in ClientSegments, "RST" \notin seg.flags,
         NEW t, MapInv(t, Keys, Conns, Time), MapHas(t, k, Time),
         \A q \in Keys : MapHas(t, q, Time) => ConnOK(q, SlotOf(t, q, Time).val),
         tcp_handler_table' = tcp_handler_table, Process(k, t, seg)
  PROVE  /\ ServerTyped' /\ ConnsOK'
         /\ \E out \in Seq(ServerSegments) :
              toClient' = [toClient EXCEPT ![k] = @ \o out]
<1> DEFINE conn   == MapGet(t, k, Time)
           accept == conn.state = "LISTEN"
           kept   == IF conn.state = "LAST_ACK" THEN MapDelete(t, k, Time) ELSE t
           iss    == (incarnations[k] * (SeqMod \div MaxIncarnations)) % SeqMod
           one    == Advanced(conn, seg, iss)
           before == IF accept THEN 0 ELSE said[k]
           data   == [i \in 1..seg.len |-> seg.from + i - 1]
           flags  == ReplyFlags(conn, seg)
<1>0. /\ Time \in Nat \ {0} /\ incarnations[k] \in Nat /\ said[k] \in Nat
      /\ heard \in [Keys -> Seq(Nat)] /\ said \in [Keys -> Nat] /\ incarnations \in [Keys -> Nat]
      /\ heard[k] \in Seq(Nat) /\ toClient \in [Keys -> Seq(ServerSegments)]
      /\ tcp_handler_table \subseteq Ports /\ crashed \in BOOLEAN
  BY DEF Inv, ServerTyped, Time
<1>1. /\ ~ Ignored(conn, seg) /\ ~ OutOfOrder(conn, seg)
      /\ incarnations' = IF accept THEN [incarnations EXCEPT ![k] = @ + 1] ELSE incarnations
      /\ crashed' = crashed
      /\ IF seg.len > 0 /\ k[2] \notin tcp_handler_table
         THEN /\ tcp_conn_table' = MapRevise(kept, k, one, Time)
              /\ toClient' = [toClient EXCEPT ![k] = Append(@, PortUnreachable)]
              /\ heard' = heard /\ said' = said
         ELSE \E len \in IF seg.len > 0 THEN Answers ELSE {0} :
                LET two   == tcp_send(one, len)
                    three == Finished(two, flags, before + len)
                IN  /\ tcp_conn_table' = MapRevise(kept, k, three.conn, Time)
                    /\ toClient' = [toClient EXCEPT ![k] =
                                      @ \o Sent(one, len, before) \o three.out]
                    /\ heard' = [heard EXCEPT ![k] = IF accept THEN data ELSE @ \o data]
                    /\ said' = [said EXCEPT ![k] = before + len]
  BY DEF Process
<1>2. conn \in Conns /\ ConnOK(k, conn)
  <2>1. MapTyped(t, Keys, Conns, Time)
    BY DEF MapInv
  <2>2. conn = SlotOf(t, k, Time).val
    BY DEF MapGet, SlotOf
  <2>3. SlotOf(t, k, Time).val \in Conns
    BY ONLY <1>0, <2>1, MapHas(t, k, Time), SlotFilled
  <2> QED BY <2>2, <2>3
<1>3. iss \in 0..(SeqMod - 1)
  <2>1. SeqMod \in Nat \ {0} /\ (SeqMod \div MaxIncarnations) \in Nat
    BY StreamAssumption, BoundsAssumption
  <2>2. incarnations[k] * (SeqMod \div MaxIncarnations) \in Nat
    BY <1>0, <2>1
  <2> QED BY <2>1, <2>2
<1>4. flags \in SUBSET {"SYN", "ACK", "FIN"} /\ bytes_in_flight(0, flags) \in Nat
  BY <1>2, FlagsOK
<1>5. before \in Nat /\ seg.len \in Nat /\ seg.from \in Nat
  BY <1>0, SegmentSays DEF Segments
<1>6. /\ MapInv(kept, Keys, Conns, Time)
      /\ \A q \in Keys : MapHas(kept, q, Time) =>
           MapHas(t, q, Time) /\ SlotOf(kept, q, Time) = SlotOf(t, q, Time)
  <2>1. CASE conn.state = "LAST_ACK"
    <3>1. AfterDelete(t, k, Time, kept)
      BY <2>1 DEF AfterDelete
    <3> HIDE DEF kept
    <3> QED BY <3>1, Deleted
  <2>2. CASE conn.state # "LAST_ACK"
    BY <2>2
  <2> QED BY <2>1, <2>2
<1>i. incarnations' \in [Keys -> Nat]
  BY <1>0, <1>1
<1> HIDE DEF conn, kept, iss, one, flags, before
<1>7. /\ one \in Conns /\ one.state # "LISTEN"
      /\ \E x \in Places :
           /\ one.ack = At(x)
           /\ k[2] \in tcp_handler_table => Before(x) \subseteq HeardBefore(k, conn) \cup DataOf(seg)
  BY <1>1, <1>2, <1>3, Step1 DEF one
<1>8. PICK x \in Places :
           /\ one.ack = At(x)
           /\ k[2] \in tcp_handler_table => Before(x) \subseteq HeardBefore(k, conn) \cup DataOf(seg)
  BY <1>7
<1>9. ASSUME NEW c \in Conns, c.ack = At(x), tcp_conn_table' = MapRevise(kept, k, c, Time),
             \A q \in Keys : q # k => heard'[q] = heard[q],
             k[2] \in tcp_handler_table => Before(x) \subseteq Heard(k)'
      PROVE  MapInv(tcp_conn_table', Keys, Conns, Time) /\ ConnsOK'
  <2>1. AfterRevise(kept, k, c, Time, tcp_conn_table')
    BY <1>9 DEF AfterRevise
  <2>2. /\ MapInv(tcp_conn_table', Keys, Conns, Time)
        /\ \A q \in Keys : MapHas(tcp_conn_table', q, Time) =>
             /\ MapHas(kept, q, Time)
             /\ SlotOf(tcp_conn_table', q, Time).val = IF q = k THEN c ELSE SlotOf(kept, q, Time).val
    BY ONLY <1>6, <2>1, k \in Keys, c \in Conns, Revised
  <2>3. ASSUME NEW q \in Keys, MapHas(tcp_conn_table', q, Time)
        PROVE  ConnOK(q, SlotOf(tcp_conn_table, q, Time).val)'
    <3>1. CASE q = k
      BY <1>9, <2>2, <2>3, <3>1 DEF ConnOK
    <3>2. CASE q # k
      <4>1. ConnOK(q, SlotOf(t, q, Time).val) /\ heard'[q] = heard[q]
        BY <1>6, <1>9, <2>2, <2>3, <3>2
      <4>2. SlotOf(tcp_conn_table', q, Time).val = SlotOf(t, q, Time).val
        BY <1>6, <2>2, <2>3, <3>2
      <4> QED BY <4>1, <4>2 DEF ConnOK, Heard
    <3> QED BY <3>1, <3>2
  <2> QED BY <2>2, <2>3 DEF ConnsOK, Keys, Time
<1>10. CASE seg.len > 0 /\ k[2] \notin tcp_handler_table
  <2>1. /\ tcp_conn_table' = MapRevise(kept, k, one, Time)
        /\ toClient' = [toClient EXCEPT ![k] = Append(@, PortUnreachable)]
        /\ heard' = heard /\ said' = said
    BY <1>1, <1>10
  <2>2. MapInv(tcp_conn_table', Keys, Conns, Time) /\ ConnsOK'
    BY <1>7, <1>8, <1>9, <1>10, <2>1
  <2>3. ServerTyped'
    BY <1>0, <1>1, <1>i, <2>1, <2>2 DEF ServerTyped, Keys, Time, Conns
  <2>4. PortUnreachable \in ServerSegments
    BY StreamAssumption DEF PortUnreachable, ServerSegments
  <2>5. <<PortUnreachable>> \in Seq(ServerSegments)
        /\ toClient' = [toClient EXCEPT ![k] = @ \o <<PortUnreachable>>]
    <3>1. toClient[k] \in Seq(ServerSegments) /\ <<PortUnreachable>> \in Seq(ServerSegments)
      BY <1>0, <2>4
    <3>2. Append(toClient[k], PortUnreachable) = toClient[k] \o <<PortUnreachable>>
      BY ONLY <2>4, <3>1, AppendIsConcat
    <3> QED BY <2>1, <3>1, <3>2
  <2> QED BY <2>2, <2>3, <2>5
<1>11. CASE ~ (seg.len > 0 /\ k[2] \notin tcp_handler_table)
  <2>0. PICK len \in IF seg.len > 0 THEN Answers ELSE {0} :
          \E two, three :
            /\ two = tcp_send(one, len) /\ three = Finished(two, flags, before + len)
            /\ tcp_conn_table' = MapRevise(kept, k, three.conn, Time)
            /\ toClient' = [toClient EXCEPT ![k] = @ \o Sent(one, len, before) \o three.out]
            /\ heard' = [heard EXCEPT ![k] = IF accept THEN data ELSE @ \o data]
            /\ said' = [said EXCEPT ![k] = before + len]
    BY <1>1, <1>11
  <2>1. PICK two, three :
          /\ two = tcp_send(one, len) /\ three = Finished(two, flags, before + len)
          /\ tcp_conn_table' = MapRevise(kept, k, three.conn, Time)
          /\ toClient' = [toClient EXCEPT ![k] = @ \o Sent(one, len, before) \o three.out]
          /\ heard' = [heard EXCEPT ![k] = IF accept THEN data ELSE @ \o data]
          /\ said' = [said EXCEPT ![k] = before + len]
    BY <2>0
  <2>2. len \in Nat
    BY StreamAssumption
  <2>3. /\ two \in Conns /\ two.state = one.state /\ two.ack = one.ack
        /\ Sent(one, len, before) \in Seq(ServerSegments)
    BY <1>5, <1>7, <1>8, <2>1, <2>2, Step2
  <2>4. before + len \in Nat /\ two.ack = At(x)
    BY <1>5, <1>8, <2>2, <2>3
  <2>5. /\ three.conn \in Conns /\ three.conn.state = two.state /\ three.conn.ack = two.ack
        /\ three.out \in Seq(ServerSegments)
    BY <1>4, <2>1, <2>3, <2>4, Step3
  <2>6. /\ heard' \in [Keys -> Seq(Nat)] /\ \A q \in Keys : q # k => heard'[q] = heard[q]
        /\ Heard(k)' = HeardBefore(k, conn) \cup DataOf(seg)
    <3>1. PICK s, n, from, r : /\ s = heard[k] /\ n = seg.len /\ from = seg.from
                               /\ data = [i \in 1..n |-> from + i - 1] /\ r = s \o data
      OBVIOUS
    <3>2. /\ data \in Seq(Nat) /\ r \in Seq(Nat)
          /\ {data[i] : i \in 1..Len(data)} = DataOf(seg)
          /\ {r[i] : i \in 1..Len(r)} = Heard(k) \cup DataOf(seg)
      <4> HIDE DEF data
      <4>1. s \in Seq(Nat) /\ n \in Nat /\ from \in Nat
        BY <1>0, <1>5, <3>1
      <4>2. Stretch(s, n, from, data, r)
        BY <3>1 DEF Stretch
      <4>3. /\ data \in Seq(Nat) /\ r \in Seq(Nat)
            /\ Elements(data) = Run(n, from) /\ Elements(r) = Elements(s) \cup Run(n, from)
        BY ONLY <4>1, <4>2, HeardMore
      <4> QED BY ONLY <3>1, <4>3 DEF DataOf, Heard, Elements, Run
    <3> HIDE DEF data
    <3>5. r = heard[k] \o data
      BY <3>1
    <3>3. heard' = [heard EXCEPT ![k] = IF accept THEN data ELSE r]
      BY <2>1, <3>5
    <3>4. heard'[k] = IF accept THEN data ELSE r
      BY <1>0, <3>3
    <3> QED BY <1>0, <3>2, <3>3, <3>4 DEF Heard, HeardBefore, Accepts
  <2>7. MapInv(tcp_conn_table', Keys, Conns, Time) /\ ConnsOK'
    <3>1. k[2] \in tcp_handler_table => Before(x) \subseteq Heard(k)'
      BY <1>8, <2>6
    <3>2. three.conn.ack = At(x)
      BY <2>4, <2>5
    <3> QED BY <1>9, <2>1, <2>5, <2>6, <3>1, <3>2
  <2>8. ServerTyped'
    <3>1. said' \in [Keys -> Nat]
      BY <1>0, <2>1, <2>4
    <3> QED BY <1>0, <1>1, <1>i, <2>6, <2>7, <3>1 DEF ServerTyped, Keys, Time, Conns
  <2>9. /\ Sent(one, len, before) \o three.out \in Seq(ServerSegments)
        /\ toClient' = [toClient EXCEPT ![k] = @ \o (Sent(one, len, before) \o three.out)]
    <3>1. toClient[k] \in Seq(ServerSegments)
      BY <1>0
    <3>2. Sent(one, len, before) \o three.out \in Seq(ServerSegments)
      BY <2>3, <2>5, ConcatProperties
    <3>3. PICK r, a, b : r = toClient[k] /\ a = Sent(one, len, before) /\ b = three.out
      OBVIOUS
    <3>4. r \in Seq(ServerSegments) /\ a \in Seq(ServerSegments) /\ b \in Seq(ServerSegments)
      BY <2>3, <2>5, <3>1, <3>3
    <3>5. r \o a \o b = r \o (a \o b)
      <4>1. PICK S : S = ServerSegments
        OBVIOUS
      <4>2. r \in Seq(S) /\ a \in Seq(S) /\ b \in Seq(S)
        BY <3>4, <4>1
      <4> QED BY ONLY <4>2, ConcatAssociative
    <3>6. toClient' = [toClient EXCEPT ![k] = r \o a \o b]
      BY <2>1, <3>3
    <3> QED BY ONLY <3>2, <3>3, <3>5, <3>6
  <2> QED BY <2>7, <2>8, <2>9
<1> QED BY <1>10, <1>11

\* The server stays right whatever a client says; the line of k alone changes.
Told(k) ==
  /\ ServerTyped' /\ ConnsOK'
  /\ toClient' \in [Keys -> Seq(ServerSegments)]
  /\ \A q \in Keys : q # k => toClient'[q] = toClient[q]

LEMMA TcpIn ==
  ASSUME Inv, NEW k \in Keys, NEW seg \in ClientSegments, tcp_in(k, seg)
  PROVE  Told(k) /\ client' = client
<1>1. PICK t : t = tcp_get_connection(k)
  OBVIOUS
<1>2. /\ MapInv(t, Keys, Conns, Time)
      /\ \A q \in Keys : MapHas(t, q, Time) => ConnOK(q, SlotOf(t, q, Time).val)
  BY <1>1, GetConnection DEF Inv
<1>3. /\ tcp_handler_table' = tcp_handler_table /\ client' = client
      /\ IF "RST" \in seg.flags THEN Reset(k, t)
         ELSE \/ NullConnection(k, t)
              \/ MapHas(t, k, Time) /\ Discard(k, t, seg)
              \/ MapHas(t, k, Time) /\ Process(k, t, seg)
  BY <1>1 DEF tcp_in
<1>0. toClient \in [Keys -> Seq(ServerSegments)] /\ ServerTyped
  BY DEF Inv
<1>4. ASSUME "RST" \in seg.flags, Reset(k, t) PROVE Told(k)
  <2>1. /\ AfterDelete(t, k, Time, tcp_conn_table')
        /\ toClient' = toClient /\ incarnations' = incarnations /\ heard' = heard
        /\ said' = said /\ crashed' = crashed
    BY <1>4 DEF Reset, AfterDelete
  <2>2. /\ MapInv(tcp_conn_table', Keys, Conns, Time)
        /\ \A q \in Keys : MapHas(tcp_conn_table', q, Time) =>
             MapHas(t, q, Time) /\ SlotOf(tcp_conn_table', q, Time) = SlotOf(t, q, Time)
    BY ONLY <1>2, <2>1, k \in Keys, Deleted
  <2>3. ConnsOK'
    BY <1>2, <1>3, <2>1, <2>2 DEF ConnsOK, ConnOK, Heard, Keys, Time
  <2>4. ServerTyped'
    BY <1>0, <1>3, <2>1, <2>2 DEF ServerTyped, Keys, Time, Conns
  <2> QED BY <1>0, <2>1, <2>3, <2>4 DEF Told
<1>5. ASSUME NullConnection(k, t) PROVE Told(k)
  <2>1. /\ tcp_conn_table' = tcp_conn_table /\ crashed' = TRUE
        /\ toClient' = toClient /\ incarnations' = incarnations /\ heard' = heard /\ said' = said
    BY <1>5 DEF NullConnection
  <2>2. ConnsOK'
    <3>1. ConnsOK /\ tcp_conn_table' = tcp_conn_table /\ heard' = heard
          /\ tcp_handler_table' = tcp_handler_table
      BY <1>3, <2>1 DEF Inv
    <3>2. ASSUME NEW q \in Keys, MapHas(tcp_conn_table', q, Time)
          PROVE  ConnOK(q, SlotOf(tcp_conn_table, q, Time).val)'
      <4>1. ConnOK(q, SlotOf(tcp_conn_table, q, Time).val)
        BY ONLY <3>1, <3>2, q \in Keys DEF ConnsOK
      <4> QED BY ONLY <3>1, <4>1 DEF ConnOK, Heard, Time
    <3> QED BY <3>2 DEF ConnsOK, Keys, Time
  <2>3. ServerTyped'
    BY <1>0, <1>3, <2>1 DEF ServerTyped, Keys, Time, Conns
  <2> QED BY <1>0, <2>1, <2>2, <2>3 DEF Told
<1>6. ASSUME MapHas(t, k, Time), Discard(k, t, seg) PROVE Told(k)
  <2> DEFINE conn == MapGet(t, k, Time)
  <2>1. /\ tcp_conn_table' = t
        /\ toClient' = IF Ignored(conn, seg) THEN toClient
                       ELSE [toClient EXCEPT ![k] = Append(@, tcp_out(conn, {"ACK"}, 0, said[k]))]
        /\ Ignored(conn, seg) \/ OutOfOrder(conn, seg)
        /\ incarnations' = incarnations /\ heard' = heard /\ said' = said /\ crashed' = crashed
    BY <1>6 DEF Discard
  <2>2. conn \in Conns /\ ConnOK(k, conn)
    <3>1. conn = SlotOf(t, k, Time).val
      BY DEF MapGet, SlotOf
    <3>2. MapTyped(t, Keys, Conns, Time) /\ Time \in Nat \ {0} /\ MapHas(t, k, Time)
      BY <1>2, <1>6 DEF MapInv, Time
    <3>3. SlotOf(t, k, Time).val \in Conns
      BY ONLY <3>2, SlotFilled
    <3> QED BY <1>2, <1>6, <3>1, <3>3
  <2>3. ConnsOK'
    <3>1. tcp_conn_table' = t /\ heard' = heard
      BY <2>1
    <3> HIDE DEF conn
    <3>2. ASSUME NEW q \in Keys, MapHas(tcp_conn_table', q, Time)
          PROVE  ConnOK(q, SlotOf(tcp_conn_table, q, Time).val)'
      BY ONLY <1>2, <1>3, <3>1, <3>2 DEF ConnOK, Heard, Keys, Time
    <3> QED BY <3>2 DEF ConnsOK, Keys, Time
  <2>4. ServerTyped'
    BY <1>0, <1>2, <1>3, <2>1 DEF ServerTyped, Keys, Time, Conns
  <2>5. CASE Ignored(conn, seg)
    BY <1>0, <2>1, <2>3, <2>4, <2>5 DEF Told
  <2>6. CASE ~ Ignored(conn, seg)
    <3>1. \E y \in Places : conn.ack = At(y)
      BY <2>1, <2>2, <2>6 DEF OutOfOrder, ConnOK
    <3> HIDE DEF conn
    <3>2. said[k] \in Nat /\ {"ACK"} \in SUBSET {"SYN", "ACK", "FIN"}
      BY <1>0 DEF ServerTyped
    <3>3. PICK x : x = tcp_out(conn, {"ACK"}, 0, said[k])
      OBVIOUS
    <3>4. x \in ServerSegments
      BY <2>2, <3>1, <3>2, <3>3, TcpOut
    <3>5. toClient' = [toClient EXCEPT ![k] = Append(@, x)]
      BY <2>1, <2>6, <3>3
    <3> QED BY <1>0, <2>3, <2>4, <3>4, <3>5 DEF Told
  <2> QED BY <2>5, <2>6
<1>7. ASSUME "RST" \notin seg.flags, MapHas(t, k, Time), Process(k, t, seg) PROVE Told(k)
  <2>1. /\ ServerTyped' /\ ConnsOK'
        /\ \E out \in Seq(ServerSegments) :
             toClient' = [toClient EXCEPT ![k] = @ \o out]
    BY <1>2, <1>3, <1>7, ProcessEffect
  <2>2. PICK out \in Seq(ServerSegments) : toClient' = [toClient EXCEPT ![k] = @ \o out]
    BY <2>1
  <2>3. toClient[k] \o out \in Seq(ServerSegments)
    <3>1. toClient[k] \in Seq(ServerSegments)
      BY <1>0
    <3> QED BY <3>1, ConcatProperties
  <2> QED BY <1>0, <2>1, <2>2, <2>3 DEF Told
<1> QED BY <1>3, <1>4, <1>5, <1>6, <1>7

-----------------------------------------------------------------------------
(* The actions *)

LEMMA Shorter ==
  ASSUME NEW S, NEW q \in Seq(S), NEW i \in 1..Len(q)
  PROVE  WithoutAt(q, i) \in Seq(S)
<1>1. Len(q) \in Nat /\ \A j \in 1..Len(q) : q[j] \in S
  BY LenProperties
<1>2. PICK a, b : a = SubSeq(q, 1, i - 1) /\ b = SubSeq(q, i + 1, Len(q))
  OBVIOUS
<1>3. a \in Seq(S) /\ b \in Seq(S)
  BY <1>1, <1>2, SubSeqProperties
<1>4. a \o b \in Seq(S)
  BY ONLY <1>3, ConcatProperties
<1> QED BY <1>2, <1>4 DEF WithoutAt

LEMMA InitInv == Init => Inv
<1> SUFFICES ASSUME Init PROVE Inv
  OBVIOUS
<1>1. /\ tcp_handler_table = Open /\ tcp_conn_table = MapInit(ConnSlots, 0)
      /\ heard = [k \in Keys |-> <<>>] /\ said = [k \in Keys |-> 0]
      /\ incarnations = [k \in Keys |-> 0] /\ crashed = FALSE
      /\ toServer = [k \in Keys |-> <<>>] /\ toClient = [k \in Keys |-> <<>>]
      /\ client = [k \in Keys |-> [state |-> "closed", snd |-> 0, una |-> 0, rcv |-> 0,
                                   read |-> <<>>]]
      /\ upsets = 0
  BY DEF Init
<1>2. /\ MapInv(tcp_conn_table, Keys, Conns, 1)
      /\ \A k : ~ MapHas(tcp_conn_table, k, 1)
  <2>1. ConnSlots \in Nat \ {0} /\ 0 \in Nat /\ tcp_conn_table = MapInit(ConnSlots, 0)
    BY <1>1, BoundsAssumption
  <2> QED BY ONLY <2>1, NewMap
<1>3. ServerTyped
  <2>1. heard \in [Keys -> Seq(Nat)]
    <3>1. <<>> \in Seq(Nat)
      OBVIOUS
    <3> QED BY ONLY <1>1, <3>1
  <2>2. said \in [Keys -> Nat] /\ incarnations \in [Keys -> Nat]
    <3>1. 0 \in Nat
      OBVIOUS
    <3> QED BY ONLY <1>1, <3>1
  <2>3. tcp_handler_table \subseteq Ports /\ crashed \in BOOLEAN
    BY <1>1, PortsAssumption
  <2>4. MapInv(tcp_conn_table, Keys, Conns, Time)
    BY <1>2 DEF Time
  <2> QED BY ONLY <2>1, <2>2, <2>3, <2>4 DEF ServerTyped
<1>4. [state |-> "closed", snd |-> 0, una |-> 0, rcv |-> 0, read |-> <<>>] \in Clients
  BY StreamAssumption DEF Clients
<1>5. client \in [Keys -> Clients]
  BY <1>1, <1>4
<1>6. toServer \in [Keys -> Seq(ClientSegments)] /\ toClient \in [Keys -> Seq(ServerSegments)]
  BY <1>1
<1>7. ConnsOK
  BY <1>2 DEF ConnsOK, Time
<1> QED BY <1>1, <1>3, <1>5, <1>6, <1>7, BoundsAssumption DEF Inv

LEMMA ServerSame ==
  ASSUME ServerTyped, ConnsOK, UNCHANGED server
  PROVE  ServerTyped' /\ ConnsOK'
<1>1. /\ tcp_handler_table' = tcp_handler_table /\ tcp_conn_table' = tcp_conn_table
      /\ incarnations' = incarnations /\ heard' = heard /\ said' = said /\ crashed' = crashed
  BY DEF server
<1>2. ServerTyped'
  BY <1>1 DEF ServerTyped, Keys, Time, Conns
<1>3. ConnsOK'
  <2>1. ASSUME NEW q \in Keys, MapHas(tcp_conn_table', q, Time)
        PROVE  ConnOK(q, SlotOf(tcp_conn_table, q, Time).val)'
    <3>1. ConnOK(q, SlotOf(tcp_conn_table, q, Time).val)
      BY ONLY <1>1, <2>1, q \in Keys, ConnsOK DEF ConnsOK
    <3> QED BY ONLY <1>1, <3>1 DEF ConnOK, Heard, Time
  <2> QED BY <2>1 DEF ConnsOK, Keys, Time
<1> QED BY <1>2, <1>3

LEMMA ClientFacts ==
  ASSUME Inv, NEW k \in Keys
  PROVE  /\ client[k] \in Clients
         /\ client[k].snd \in {0} \cup Places /\ client[k].una \in {0} \cup Places
         /\ client[k].snd \in 0..(Total + 2) /\ client[k].una \in 0..(Total + 2)
         /\ toServer[k] \in Seq(ClientSegments) /\ toClient[k] \in Seq(ServerSegments)
         /\ client[k].state = "closed" =>
              client[k].snd = 0 /\ toServer[k] = <<>> /\ toClient[k] = <<>>
<1>1. client[k] \in Clients
  BY DEF Inv
<1>2. client[k].snd \in {0} \cup Places /\ client[k].una \in {0} \cup Places
  BY <1>1 DEF Clients
<1>3. client[k].snd \in 0..(Total + 2) /\ client[k].una \in 0..(Total + 2)
  BY <1>2, PlacesRange, StreamAssumption
<1> QED BY <1>1, <1>2, <1>3 DEF Inv, Clients

\* One client and its two lines change, to what they may be.
LEMMA ClientStep ==
  ASSUME Inv, NEW k \in Keys, UNCHANGED server, upsets' \in 0..MaxUpsets,
         NEW c \in Clients, NEW a \in Seq(ClientSegments), NEW b \in Seq(ServerSegments),
         client' = [client EXCEPT ![k] = c],
         toServer' = [toServer EXCEPT ![k] = a],
         toClient' = [toClient EXCEPT ![k] = b],
         c.state = "closed" => a = <<>> /\ b = <<>>
  PROVE  Inv'
<1>1. ServerTyped' /\ ConnsOK'
  BY ServerSame DEF Inv
<1>2. /\ client' \in [Keys -> Clients]
      /\ toServer' \in [Keys -> Seq(ClientSegments)] /\ toClient' \in [Keys -> Seq(ServerSegments)]
  BY DEF Inv
<1>3. \A q \in Keys : client'[q].state = "closed" => toServer'[q] = <<>> /\ toClient'[q] = <<>>
  BY DEF Inv
<1> QED BY <1>1, <1>2, <1>3
        DEF Inv, Keys, Clients, ClientSegments, ServerSegments, Places, Cuts, At

\* What a client sends at a place of its stream is one of its segments.
LEMMA Says ==
  /\ \A y \in {0} \cup Cuts : ClientSegment(y) \in ClientSegments
  /\ \A y \in {0} \cup Places : BareAck(y) \in ClientSegments /\ Abort(y) \in ClientSegments
BY DEF ClientSegments

LEMMA SendsInv ==
  ASSUME Inv, NEW k \in Keys, ClientSends(k)
  PROVE  Inv'
<1> DEFINE c == client[k]
           x == ClientSegment(c.snd)
           d == [c EXCEPT !.snd = After(@), !.state = IF @ = "closed" THEN "syn_sent" ELSE @]
<1>1. /\ c \in Clients /\ c.snd \in {0} \cup Places
      /\ toServer[k] \in Seq(ClientSegments) /\ toClient[k] \in Seq(ServerSegments)
      /\ c.state = "closed" => c.snd = 0
  BY ClientFacts
<1>2. /\ c.state = "closed" \/ (c.state = "open" /\ c.snd # Total + 2)
      /\ client' = [client EXCEPT ![k] = d]
      /\ toServer' = [toServer EXCEPT ![k] = Append(@, x)]
      /\ UNCHANGED server /\ toClient' = toClient /\ upsets' = upsets
  BY <1>1 DEF ClientSends, Established, AllSent, Inv
<1>3. c.snd \in {0} \cup Cuts
  BY <1>1, <1>2 DEF Places
<1>4. After(c.snd) \in Places /\ x \in ClientSegments
  <2>1. 1 \in Places
    BY CutsRange DEF Places
  <2> QED BY <1>3, <2>1, AfterPlace, Says
<1>5. d \in Clients /\ d.state # "closed"
  BY <1>1, <1>2, <1>4 DEF Clients
<1>6. Append(toServer[k], x) \in Seq(ClientSegments)
  BY <1>1, <1>4
<1> QED
  <2> HIDE DEF d, x, c
  <2>1. PICK a, b : a = Append(toServer[k], x) /\ b = toClient[k]
    OBVIOUS
  <2>2. toServer' = [toServer EXCEPT ![k] = a] /\ toClient' = [toClient EXCEPT ![k] = b]
    BY <1>2, <2>1 DEF Inv
  <2>3. upsets' \in 0..MaxUpsets
    BY <1>2 DEF Inv
  <2>4. a \in Seq(ClientSegments) /\ b \in Seq(ServerSegments)
    BY <1>1, <1>6, <2>1
  <2> QED BY <1>2, <1>5, <2>2, <2>3, <2>4, ClientStep

LEMMA ResendsInv ==
  ASSUME Inv, NEW k \in Keys, ClientResends(k)
  PROVE  Inv'
<1>1. PICK c, b : c = client[k] /\ b = toClient[k]
  OBVIOUS
<1>2. /\ c \in Clients /\ c.una \in {0} \cup Places /\ c.snd \in 0..(Total + 2)
      /\ b \in Seq(ServerSegments)
  BY <1>1, ClientFacts
<1>3. /\ c.state # "closed" /\ c.una < c.snd /\ toServer' = [toServer EXCEPT ![k] = <<ClientSegment(c.una)>>]
      /\ UNCHANGED server /\ toClient' = toClient /\ client' = client /\ upsets' = upsets
  BY <1>1 DEF ClientResends
<1>4. c.una \in {0} \cup Cuts
  <2>1. c.una # Total + 2
    BY <1>2, <1>3, StreamAssumption
  <2> QED BY <1>2, <2>1 DEF Places
<1>5. PICK a : a = <<ClientSegment(c.una)>>
  OBVIOUS
<1>6. a \in Seq(ClientSegments)
  <2>1. PICK x \in ClientSegments : x = ClientSegment(c.una)
    BY <1>4, Says
  <2> QED BY <1>5, <2>1
<1>7. /\ client' = [client EXCEPT ![k] = c] /\ toServer' = [toServer EXCEPT ![k] = a]
      /\ toClient' = [toClient EXCEPT ![k] = b]
  BY <1>1, <1>3, <1>5 DEF Inv
<1>8. upsets' \in 0..MaxUpsets
  BY <1>3 DEF Inv
<1> QED BY <1>2, <1>3, <1>6, <1>7, <1>8, ClientStep

LEMMA AbortsInv ==
  ASSUME Inv, NEW k \in Keys, Upset(1), ClientAborts(k)
  PROVE  Inv'
<1>1. PICK d, a, b : /\ d = [client[k] EXCEPT !.state = "aborted"]
                     /\ a = Append(toServer[k], Abort(client[k].snd)) /\ b = toClient[k]
  OBVIOUS
<1>2. d \in Clients /\ d.state # "closed"
  BY <1>1, ClientFacts DEF Clients
<1>3. a \in Seq(ClientSegments) /\ b \in Seq(ServerSegments)
  BY <1>1, ClientFacts, Says
<1>4. /\ client' = [client EXCEPT ![k] = d] /\ toServer' = [toServer EXCEPT ![k] = a]
      /\ toClient' = [toClient EXCEPT ![k] = b] /\ UNCHANGED server
  BY <1>1 DEF ClientAborts, Inv
<1>5. upsets' \in 0..MaxUpsets
  BY BoundsAssumption DEF Inv, Upset
<1> QED BY <1>2, <1>3, <1>4, <1>5, ClientStep

\* What a client makes of a segment, and what it answers.
LEMMA Receives ==
  ASSUME Inv, NEW k \in Keys, NEW seg \in ServerSegments, ClientReceives(k, seg),
         client[k].state # "closed"
  PROVE  \E d \in Clients, out \in Seq(ClientSegments) :
           /\ d.state # "closed"
           /\ client' = [client EXCEPT ![k] = d]
           /\ toServer' = [toServer EXCEPT ![k] = @ \o out]
<1>1. PICK c : c = client[k]
  OBVIOUS
<1>2. /\ c \in Clients /\ c.state # "closed"
      /\ c.snd \in {0} \cup Places /\ c.una \in {0} \cup Places
      /\ toServer[k] \in Seq(ClientSegments)
  BY <1>1, ClientFacts
<1>3. /\ \/ client' = client
         \/ client' = [client EXCEPT ![k] = Opened(c, seg)]
         \/ "UNREACH" \notin seg.flags /\ client' = [client EXCEPT ![k] = Heeded(c, seg)]
      /\ \/ toServer' = toServer
         \/ toServer' = [toServer EXCEPT ![k] = Append(@, BareAck(1))]
         \/ toServer' = [toServer EXCEPT ![k] = Append(@, BareAck(c.snd))]
         \/ toServer' = [toServer EXCEPT ![k] = Append(@, Abort(c.snd))]
  <2>1. CASE "UNREACH" \in seg.flags
    BY <2>1 DEF ClientReceives
  <2>2. CASE "UNREACH" \notin seg.flags /\ c.state = "syn_sent"
    BY <1>1, <2>2 DEF ClientReceives
  <2>3. CASE "UNREACH" \notin seg.flags /\ c.state \in {"open", "done"}
    BY <1>1, <2>3 DEF ClientReceives
  <2>4. CASE "UNREACH" \notin seg.flags /\ c.state = "aborted"
    BY <1>1, <2>4 DEF ClientReceives
  <2>5. c.state \in {"syn_sent", "open", "done", "aborted"}
    BY <1>2 DEF Clients
  <2> QED BY <2>1, <2>2, <2>3, <2>4, <2>5
<1>4. \E out \in Seq(ClientSegments) : toServer' = [toServer EXCEPT ![k] = @ \o out]
  <2>1. \A q \in Seq(ClientSegments) : q = q \o <<>>
    OBVIOUS
  <2>2. CASE toServer' = toServer
    <3>1. <<>> \in Seq(ClientSegments) /\ toServer[k] \o <<>> = toServer[k]
      BY <1>2, <2>1
    <3>2. toServer' = [toServer EXCEPT ![k] = @ \o <<>>]
      BY <2>2, <3>1 DEF Inv
    <3> QED BY <3>1, <3>2
  <2>3. ASSUME NEW x \in ClientSegments, toServer' = [toServer EXCEPT ![k] = Append(@, x)]
        PROVE  \E out \in Seq(ClientSegments) : toServer' = [toServer EXCEPT ![k] = @ \o out]
    <3>1. <<x>> \in Seq(ClientSegments) /\ Append(toServer[k], x) = toServer[k] \o <<x>>
      BY <1>2
    <3>2. toServer' = [toServer EXCEPT ![k] = @ \o <<x>>]
      BY <2>3, <3>1 DEF Inv
    <3> QED BY <3>1, <3>2
  <2>4. /\ BareAck(1) \in ClientSegments /\ BareAck(c.snd) \in ClientSegments
        /\ Abort(c.snd) \in ClientSegments
    <3>1. 1 \in Places
      BY CutsRange DEF Places
    <3> QED BY ONLY <1>2, <3>1, Says
  <2> QED BY ONLY <1>3, <2>2, <2>3, <2>4
<1>5. /\ seg.seq \in 0..(SeqMod - 1) /\ seg.len \in Nat /\ seg.from \in Nat
      /\ seg.flags \in SUBSET {"SYN", "ACK", "FIN", "UNREACH"} /\ SeqMod \in Nat \ {0}
      /\ "UNREACH" \notin seg.flags => AckedBy(seg) \in Places
  <2>1. "UNREACH" \notin seg.flags => AckedBy(seg) \in Places
    <3> HAVE "UNREACH" \notin seg.flags
    <3>1. PICK y \in Places : seg.ack = At(y)
      BY DEF ServerSegments
    <3>2. y \in 0..(Total + 2)
      BY PlacesRange, StreamAssumption
    <3> QED BY <3>1, <3>2, PlacesRange DEF AckedBy
  <2> QED BY <2>1, StreamAssumption DEF ServerSegments
<1>6. Space(seg) \in Nat
  <2>1. PICK F : F = seg.flags \cap {"SYN", "FIN"}
    OBVIOUS
  <2>2. IsFiniteSet({"SYN"}) /\ IsFiniteSet({"FIN"})
    BY FS_Singleton
  <2>3. IsFiniteSet({"SYN"} \cup {"FIN"}) /\ F \subseteq {"SYN"} \cup {"FIN"}
    BY <2>1, <2>2, FS_Union
  <2>4. Cardinality(F) \in Nat
    BY ONLY <2>3, FS_Subset, FS_CardinalityType
  <2> QED BY ONLY <1>5, <2>1, <2>4 DEF Space, bytes_in_flight
<1>7. Opened(c, seg) \in Clients /\ Opened(c, seg).state # "closed"
  <2>1. 1 \in Places
    BY CutsRange DEF Places
  <2>2. seg.seq \in Nat
    BY <1>5
  <2>3. PICK r : r = Add(seg.seq, 1)
    OBVIOUS
  <2>4. r \in 0..(SeqMod - 1)
    BY ONLY <2>2, <2>3, 1 \in Nat, AddRange
  <2>5. Opened(c, seg) = [c EXCEPT !.state = "open", !.una = 1, !.rcv = r]
    BY <2>3 DEF Opened
  <2> QED BY ONLY <1>2, <2>1, <2>4, <2>5 DEF Clients
<1>8. "UNREACH" \notin seg.flags => Heeded(c, seg) \in Clients /\ Heeded(c, seg).state # "closed"
  <2> HAVE "UNREACH" \notin seg.flags
  <2>1. PICK n, r, d, u, e : /\ n = Space(seg) /\ r = Add(c.rcv, n)
                             /\ d = [i \in 1..seg.len |-> seg.from + i]
                             /\ u = AckedBy(seg) /\ e = c.read \o d
    OBVIOUS
  <2>2. u \in Places
    BY <1>5, <2>1
  <2>3. c.rcv \in 0..(SeqMod - 1) /\ c.read \in Seq(Nat)
    BY <1>2 DEF Clients
  <2>4. r \in 0..(SeqMod - 1)
    <3>1. c.rcv \in Nat /\ n \in Nat
      BY <1>5, <1>6, <2>1, <2>3
    <3> QED BY ONLY <2>1, <3>1, AddRange
  <2>5. e \in Seq(Nat)
    <3>1. d \in [1..seg.len -> Nat]
      BY <1>5, <2>1
    <3>2. d \in Seq(Nat)
      BY ONLY <1>5, <3>1, SeqDef
    <3> QED BY ONLY <2>1, <2>3, <3>2, ConcatProperties
  <2>6. PICK news \in BOOLEAN : news = (seg.seq = c.rcv /\ "SYN" \notin seg.flags)
    OBVIOUS
  <2>7. PICK una, rcv, read, state :
          /\ una = IF u \in c.una..c.snd THEN u ELSE c.una
          /\ rcv = IF news THEN r ELSE c.rcv
          /\ read = IF news THEN e ELSE c.read
          /\ state = IF news /\ "FIN" \in seg.flags THEN "done" ELSE c.state
    OBVIOUS
  <2>8. /\ una \in {0} \cup Places /\ rcv \in 0..(SeqMod - 1) /\ read \in Seq(Nat)
        /\ state \in {"syn_sent", "open", "done", "aborted"}
    BY ONLY <1>2, <2>2, <2>3, <2>4, <2>5, <2>7 DEF Clients
  <2>9. Heeded(c, seg) = [c EXCEPT !.una = una, !.rcv = rcv, !.read = read, !.state = state]
    BY <2>1, <2>6, <2>7 DEF Heeded
  <2> QED BY ONLY <1>2, <2>8, <2>9 DEF Clients
<1>9. \E d \in Clients : d.state # "closed" /\ client' = [client EXCEPT ![k] = d]
  <2>1. client' = client => client' = [client EXCEPT ![k] = c]
    BY <1>1 DEF Inv
  <2> QED BY <1>2, <1>3, <1>7, <1>8, <2>1
<1> QED BY <1>4, <1>9

LEMMA ToClientInv ==
  ASSUME Inv, NEW k \in Keys, NEW i \in Nat \ {0}, NEW again \in BOOLEAN,
         ToClient(k, i, again), upsets' \in 0..MaxUpsets
  PROVE  Inv'
<1>1. PICK seg, b : /\ seg = toClient[k][i]
                    /\ b = IF again THEN toClient[k] ELSE WithoutAt(toClient[k], i)
  OBVIOUS
<1>2. /\ i <= Len(toClient[k]) /\ ClientReceives(k, seg)
      /\ toClient' = IF again THEN toClient ELSE [toClient EXCEPT ![k] = WithoutAt(@, i)]
  BY <1>1 DEF ToClient
<1>3. /\ toServer[k] \in Seq(ClientSegments) /\ toClient[k] \in Seq(ServerSegments)
      /\ client[k].state = "closed" => toClient[k] = <<>>
  BY ClientFacts
<1>4. i \in 1..Len(toClient[k])
  BY <1>2, <1>3
<1>5. seg \in ServerSegments /\ client[k].state # "closed"
  <2>1. toClient[k] # <<>>
    BY <1>3, <1>4
  <2> QED BY <1>1, <1>3, <1>4, <2>1
<1>6. b \in Seq(ServerSegments)
  BY <1>1, <1>3, <1>4, Shorter
<1>7. toClient' = [toClient EXCEPT ![k] = b]
  BY <1>1, <1>2 DEF Inv
<1>8. UNCHANGED server
  BY <1>2 DEF ClientReceives
<1>9. PICK d \in Clients, out \in Seq(ClientSegments) :
           /\ d.state # "closed"
           /\ client' = [client EXCEPT ![k] = d]
           /\ toServer' = [toServer EXCEPT ![k] = @ \o out]
  BY <1>2, <1>5, Receives
<1>10. PICK a : a = toServer[k] \o out
  OBVIOUS
<1>11. a \in Seq(ClientSegments)
  BY ONLY <1>3, <1>10, out \in Seq(ClientSegments), ConcatProperties
<1>12. toServer' = [toServer EXCEPT ![k] = a]
  BY <1>9, <1>10
<1> QED BY <1>6, <1>7, <1>8, <1>9, <1>11, <1>12, ClientStep

LEMMA ToServerInv ==
  ASSUME Inv, NEW k \in Keys, NEW i \in Nat \ {0}, NEW again \in BOOLEAN,
         ToServer(k, i, again), upsets' \in 0..MaxUpsets
  PROVE  Inv'
<1>1. PICK seg, a : /\ seg = toServer[k][i]
                    /\ a = IF again THEN toServer[k] ELSE WithoutAt(toServer[k], i)
  OBVIOUS
<1>2. /\ i <= Len(toServer[k]) /\ tcp_in(k, seg)
      /\ toServer' = IF again THEN toServer ELSE [toServer EXCEPT ![k] = WithoutAt(@, i)]
  BY <1>1 DEF ToServer
<1>3. /\ toServer[k] \in Seq(ClientSegments) /\ toClient[k] \in Seq(ServerSegments)
      /\ client[k].state = "closed" => toServer[k] = <<>>
  BY ClientFacts
<1>4. i \in 1..Len(toServer[k])
  BY <1>2, <1>3
<1>5. seg \in ClientSegments /\ client[k].state # "closed"
  <2>1. toServer[k] # <<>>
    BY <1>3, <1>4
  <2> QED BY <1>1, <1>3, <1>4, <2>1
<1>6. a \in Seq(ClientSegments)
  BY <1>1, <1>3, <1>4, Shorter
<1>7. toServer' = [toServer EXCEPT ![k] = a]
  BY <1>1, <1>2 DEF Inv
<1>8. Told(k) /\ client' = client
  BY <1>2, <1>5, TcpIn
<1>9. toServer' \in [Keys -> Seq(ClientSegments)]
  BY <1>6, <1>7 DEF Inv
<1>10. \A q \in Keys : client'[q].state = "closed" => toServer'[q] = <<>> /\ toClient'[q] = <<>>
  BY <1>5, <1>7, <1>8 DEF Inv, Told
<1> QED BY <1>8, <1>9, <1>10
        DEF Told, Inv, Keys, Clients, ClientSegments, ServerSegments, Places, Cuts, At

LEMMA LoseInv ==
  ASSUME Inv, NEW k \in Keys, Lose(k)
  PROVE  Inv'
<1>1. UNCHANGED server /\ client' = client /\ upsets' \in 0..MaxUpsets
  BY BoundsAssumption DEF Lose, Upset, Inv
<1>2. PICK c, a, b : c = client[k] /\ a = toServer[k] /\ b = toClient[k]
  OBVIOUS
<1>3. /\ c \in Clients /\ a \in Seq(ClientSegments) /\ b \in Seq(ServerSegments)
      /\ c.state = "closed" => a = <<>> /\ b = <<>>
      /\ client' = [client EXCEPT ![k] = c]
  BY <1>1, <1>2, ClientFacts DEF Inv
<1>4. CASE \E i \in 1..Len(a) :
             toServer' = [toServer EXCEPT ![k] = WithoutAt(a, i)] /\ toClient' = toClient
  <2>1. PICK i \in 1..Len(a) :
          toServer' = [toServer EXCEPT ![k] = WithoutAt(a, i)] /\ toClient' = toClient
    BY <1>4
  <2>2. PICK a2 : a2 = WithoutAt(a, i)
    OBVIOUS
  <2>3. a2 \in Seq(ClientSegments) /\ c.state # "closed"
    BY <1>3, <2>2, Shorter
  <2>4. toServer' = [toServer EXCEPT ![k] = a2] /\ toClient' = [toClient EXCEPT ![k] = b]
    BY <1>2, <2>1, <2>2 DEF Inv
  <2> QED BY <1>1, <1>3, <2>3, <2>4, ClientStep
<1>5. CASE \E i \in 1..Len(b) :
             toClient' = [toClient EXCEPT ![k] = WithoutAt(b, i)] /\ toServer' = toServer
  <2>1. PICK i \in 1..Len(b) :
          toClient' = [toClient EXCEPT ![k] = WithoutAt(b, i)] /\ toServer' = toServer
    BY <1>5
  <2>2. PICK b2 : b2 = WithoutAt(b, i)
    OBVIOUS
  <2>3. b2 \in Seq(ServerSegments) /\ c.state # "closed"
    BY <1>3, <2>2, Shorter
  <2>4. toServer' = [toServer EXCEPT ![k] = a] /\ toClient' = [toClient EXCEPT ![k] = b2]
    BY <1>2, <2>1, <2>2 DEF Inv
  <2> QED BY <1>1, <1>3, <2>3, <2>4, ClientStep
<1> QED BY <1>2, <1>4, <1>5 DEF Lose

\* A closed port takes its connections along; the others stay as they are.
LEMMA ClosingInv ==
  ASSUME Inv, Closing
  PROVE  Inv'
<1>1. PICK port \in Closable \cap tcp_handler_table : Upset(1) /\ tcp_close(port)
  BY DEF Closing
<1>2. /\ tcp_conn_table' = MapSweep(tcp_conn_table, Hosts \X {port}, Time)
      /\ tcp_handler_table' = tcp_handler_table \ {port}
      /\ incarnations' = incarnations /\ heard' = heard /\ said' = said /\ crashed' = crashed
      /\ toServer' = toServer /\ toClient' = toClient /\ client' = client
  BY <1>1 DEF tcp_close
<1>3. upsets' \in 0..MaxUpsets
  BY <1>1, BoundsAssumption DEF Inv, Upset
<1>4. MapInv(tcp_conn_table, Keys, Conns, Time) /\ Time \in Nat \ {0}
  BY DEF Inv, ServerTyped, Time
<1>5. ASSUME NEW q \in Keys, MapHas(tcp_conn_table', q, Time)
      PROVE  /\ MapHas(tcp_conn_table, q, Time)
             /\ SlotOf(tcp_conn_table', q, Time) = SlotOf(tcp_conn_table, q, Time)
  <2>1. PICK S : S = Hosts \X {port}
    OBVIOUS
  <2>2. PICK w : w = tcp_conn_table'
    OBVIOUS
  <2>3. AfterSweep(tcp_conn_table, S, Time, w)
    BY <1>2, <2>1, <2>2 DEF AfterSweep
  <2>4. /\ \A k \in Keys \cap S : ~ MapHas(w, k, Time)
        /\ Others(Keys, S, tcp_conn_table, w, Time)
    BY ONLY <1>4, <2>3, MapSweepEffect
  <2> QED BY ONLY q \in Keys, MapHas(tcp_conn_table', q, Time), <2>2, <2>4 DEF Others, SameFor, SlotOf
<1>6. MapInv(tcp_conn_table', Keys, Conns, Time)
  <2>1. PICK S : S = Hosts \X {port}
    OBVIOUS
  <2>2. PICK w : w = tcp_conn_table'
    OBVIOUS
  <2>3. AfterSweep(tcp_conn_table, S, Time, w)
    BY <1>2, <2>1, <2>2 DEF AfterSweep
  <2>4. Kept(Keys, Conns, tcp_conn_table, w, Time)
    BY ONLY <1>4, <2>3, MapSweepEffect
  <2> QED BY <2>2, <2>4 DEF Kept
<1>7. ServerTyped'
  <2>1. ServerTyped
    BY DEF Inv
  <2> QED BY ONLY <1>2, <1>6, <2>1 DEF ServerTyped, Keys, Time, Conns
<1>8. ConnsOK'
  <2>1. ASSUME NEW q \in Keys, MapHas(tcp_conn_table', q, Time)
        PROVE  ConnOK(q, SlotOf(tcp_conn_table, q, Time).val)'
    <3>1. ConnOK(q, SlotOf(tcp_conn_table, q, Time).val)
      BY <1>5, <2>1 DEF Inv, ConnsOK
    <3>2. SlotOf(tcp_conn_table', q, Time) = SlotOf(tcp_conn_table, q, Time)
      BY <1>5, <2>1
    <3> QED BY ONLY <1>2, <3>1, <3>2 DEF ConnOK, Heard, Time
  <2> QED BY <2>1 DEF ConnsOK, Keys, Time
<1>9. /\ toServer \in [Keys -> Seq(ClientSegments)] /\ toClient \in [Keys -> Seq(ServerSegments)]
      /\ client \in [Keys -> Clients]
      /\ \A k \in Keys : client[k].state = "closed" => toServer[k] = <<>> /\ toClient[k] = <<>>
  BY DEF Inv
<1> QED BY ONLY <1>2, <1>3, <1>7, <1>8, <1>9
        DEF Inv, Keys, Clients, ClientSegments, ServerSegments, Places, Cuts, At

LEMMA StutterInv ==
  ASSUME Inv, UNCHANGED vars
  PROVE  Inv'
<1>1. ServerTyped' /\ ConnsOK'
  BY ServerSame DEF Inv, vars
<1>2. /\ toServer' = toServer /\ toClient' = toClient /\ client' = client /\ upsets' = upsets
  BY DEF vars
<1>3. /\ toServer \in [Keys -> Seq(ClientSegments)] /\ toClient \in [Keys -> Seq(ServerSegments)]
      /\ client \in [Keys -> Clients] /\ upsets \in 0..MaxUpsets
      /\ \A k \in Keys : client[k].state = "closed" => toServer[k] = <<>> /\ toClient[k] = <<>>
  BY DEF Inv
<1> QED BY ONLY <1>1, <1>2, <1>3
        DEF Inv, Keys, Clients, ClientSegments, ServerSegments, Places, Cuts, At

LEMMA NextInv == Inv /\ [Next]_vars => Inv'
<1> SUFFICES ASSUME Inv, [Next]_vars PROVE Inv'
  OBVIOUS
<1>1. ASSUME NEW k \in Keys, ClientSends(k) PROVE Inv'
  BY <1>1, SendsInv
<1>2. ASSUME NEW k \in Keys, ClientResends(k) PROVE Inv'
  BY <1>2, ResendsInv
<1>3. ASSUME NEW k \in Keys, Upset(1), ClientAborts(k) PROVE Inv'
  BY <1>3, AbortsInv
<1>4. ASSUME NEW k \in Keys, Deliver(k) PROVE Inv'
  <2>1. upsets' \in 0..MaxUpsets
    BY <1>4 DEF Deliver, Inv
  <2>2. 1 \in Nat \ {0} /\ FALSE \in BOOLEAN
    OBVIOUS
  <2>3. ToServer(k, 1, FALSE) \/ ToClient(k, 1, FALSE)
    BY <1>4 DEF Deliver
  <2> QED BY <2>1, <2>2, <2>3, ToServerInv, ToClientInv
<1>5. ASSUME NEW k \in Keys, Misdeliver(k) PROVE Inv'
  <2>1. PICK i \in 1..MaxBacklog, again \in BOOLEAN :
          Upset(1) /\ (ToServer(k, i, again) \/ ToClient(k, i, again))
    BY <1>5 DEF Misdeliver
  <2>2. upsets' \in 0..MaxUpsets
    BY <2>1, BoundsAssumption DEF Upset, Inv
  <2>3. i \in Nat \ {0}
    BY BoundsAssumption
  <2> QED BY <2>1, <2>2, <2>3, ToServerInv, ToClientInv
<1>6. ASSUME NEW k \in Keys, Lose(k) PROVE Inv'
  BY <1>6, LoseInv
<1>7. CASE Closing
  BY <1>7, ClosingInv
<1>8. CASE UNCHANGED vars
  BY <1>8, StutterInv
<1> QED BY <1>1, <1>2, <1>3, <1>4, <1>5, <1>6, <1>7, <1>8 DEF Next

-----------------------------------------------------------------------------

\* The inductive invariant holds whatever the clients send, the network loses,
\* repeats or reorders and the application closes (src/tcp.c: tcp_in, tcp_close).
THEOREM Invariance == Spec => []Inv
  BY InitInv, NextInv, PTL DEF Spec

\* The connection table stays well formed, its counter exact, and the segments
\* are of the kind tcp_in expects.
THEOREM TypeCorrect == Spec => []TypeOK
  BY Invariance, InvShows, PTL

\* Every byte the server acknowledges on an open port was given to the handler
\* during this very connection.
THEOREM AckedDelivered == Spec => []AckedWasDelivered
  BY Invariance, InvShows, PTL

-----------------------------------------------------------------------------
(* Without an upset                                                         *)

\* What a client sends once its SYN is answered; a bare acknowledgement.
Plain(s) == s.len = 0 /\ s.flags = {"ACK"}
Stream == {ClientSegment(y) : y \in Cuts} \cup {BareAck(y) : y \in Places}

\* What may be on its way from client c after its SYN: behind the FIN, when all
\* is sent, nothing but acknowledgements.
Line(c, q) ==
  \A i \in 1..Len(q) :
    /\ q[i] \in Stream
    /\ "FIN" \in q[i].flags => c.snd = Total + 2 /\ \A j \in 1..Len(q) : j > i => Plain(q[j])

\* The connection goes on with the byte after those that were heard, and no
\* acknowledgement is left out.
Even(conn, h) ==
  ~ conn.not_send_empty_ack /\ Len(h) + 1 \in Cuts /\ conn.ack = At(Len(h) + 1)

\* The client's FIN is acknowledged, or about to be.
FinAcked(c, r) ==
  c.una = Total + 2 \/ \E i \in 1..Len(r) : "UNREACH" \notin r[i].flags /\ r[i].ack = At(Total + 2)

\* Where a client c and its connection can be together, with q and r on their
\* way to the server and to the client, and h heard.
Idle(has, c, q, r) == ~ has /\ c.state = "closed" /\ c.snd = 0 /\ c.una = 0 /\ q = <<>> /\ r = <<>>
Asking(has, c, q, r) ==
  ~ has /\ c.state = "syn_sent" /\ c.snd = 1 /\ c.una = 0 /\ q = <<ClientSegment(0)>> /\ r = <<>>
Asked(has, conn, c, q, r, h) ==
  /\ has /\ conn.state = "SYN_RECEIVED" /\ Even(conn, h)
  /\ c.state = "syn_sent" /\ c.snd = 1 /\ q = <<>>
  /\ Len(r) = 1 /\ "SYN" \in r[1].flags /\ "UNREACH" \notin r[1].flags /\ r[1].ack = At(1)
Meeting(has, conn, c, q, r, h) ==
  /\ has /\ conn.state = "SYN_RECEIVED" /\ Even(conn, h)
  /\ c.state = "open" /\ c.una # 0 /\ c.snd # 0 /\ Line(c, q) /\ q # <<>> /\ q[1] = BareAck(1) /\ r = <<>>
Talking(has, conn, c, q, h) ==
  /\ has /\ conn.state = "ESTABLISHED" /\ Even(conn, h)
  /\ c.state \in {"open", "done"} /\ c.una # 0 /\ c.snd # 0 /\ Line(c, q)
Parting(has, conn, c, q, r) ==
  /\ has => conn.state \in {"LAST_ACK", "LISTEN"}
  /\ c.state \in {"open", "done"} /\ c.snd = Total + 2
  /\ \A i \in 1..Len(q) : Plain(q[i])
  /\ FinAcked(c, r)

Phase(has, conn, c, q, r, h) ==
  \/ Idle(has, c, q, r) \/ Asking(has, c, q, r) \/ Asked(has, conn, c, q, r, h)
  \/ Meeting(has, conn, c, q, r, h) \/ Talking(has, conn, c, q, h) \/ Parting(has, conn, c, q, r)

PhaseOf(k) ==
  Phase(MapHas(tcp_conn_table, k, Time), SlotOf(tcp_conn_table, k, Time).val,
        client[k], toServer[k], toClient[k], heard[k])

\* On an open port one phase follows another, until the process dies; on a closed
\* one nothing is heard.
CalmAt(k) ==
  /\ InOrder(heard[k])
  /\ IF k[2] \in tcp_handler_table THEN crashed \/ PhaseOf(k) ELSE heard[k] = <<>>

\* The invariant of behaviours without an upset.
Calm == upsets = 0 => \A k \in Keys : CalmAt(k)

-----------------------------------------------------------------------------
(* Lines *)

\* More of the same order behind what is in order.
LEMMA InOrderMore ==
  ASSUME NEW s \in Seq(Nat), InOrder(s), NEW n \in Nat, NEW d, d = [i \in 1..n |-> Len(s) + i],
         NEW r, r = s \o d
  PROVE  r \in Seq(Nat) /\ InOrder(r) /\ Len(r) = Len(s) + n
<1>1. PICK m \in Nat : m = Len(s)
  BY LenProperties
<1>2. d \in [1..n -> Nat] /\ d = [i \in 1..n |-> m + i]
  BY <1>1
<1>3. d \in Seq(Nat) /\ Len(d) = n
  BY <1>2
<1>4. /\ r \in Seq(Nat) /\ Len(r) = m + n
      /\ \A i \in 1..(m + n) : r[i] = IF i <= m THEN s[i] ELSE d[i - m]
  BY <1>1, <1>3, ConcatProperties
<1>5. ASSUME NEW i \in 1..(m + n) PROVE r[i] = i
  <2>1. CASE i <= m
    BY <1>1, <1>4, <1>5, <2>1 DEF InOrder
  <2>2. CASE ~ (i <= m)
    <3>1. i - m \in 1..n /\ m + (i - m) = i
      BY <1>5, <2>2
    <3> QED BY <1>2, <1>4, <1>5, <2>2, <3>1
  <2> QED BY <2>1, <2>2
<1> QED BY <1>1, <1>4, <1>5 DEF InOrder

\* What is left of a queue without its first.
LEMMA RestOf ==
  ASSUME NEW S, NEW q \in Seq(S), q # <<>>, NEW p, p = WithoutAt(q, 1)
  PROVE  /\ p \in Seq(S) /\ Len(q) \in Nat \ {0} /\ Len(p) = Len(q) - 1 /\ q[1] \in S
         /\ \A i \in 1..Len(p) : i + 1 \in 1..Len(q) /\ p[i] = q[i + 1]
<1>1. PICK n \in Nat \ {0} : n = Len(q)
  BY EmptySeq
<1>2. \A i \in 1..n : q[i] \in S
  BY <1>1, LenProperties
<1>3. PICK a, b : a = SubSeq(q, 1, 0) /\ b = SubSeq(q, 2, n)
  OBVIOUS
<1>4. a = <<>>
  BY <1>3, SubSeqEmpty
<1>5. b \in Seq(S) /\ Len(b) = n - 1 /\ \A i \in 1..(n - 1) : b[i] = q[i + 1]
  <2>1. \A i \in 2..n : q[i] \in S
    BY <1>2
  <2>2. 2 \in Int /\ n \in Int
    OBVIOUS
  <2>3. /\ b \in Seq(S) /\ Len(b) = IF 2 <= n THEN n - 2 + 1 ELSE 0
        /\ \A i \in 1..(n - 2 + 1) : b[i] = q[2 + i - 1]
    BY ONLY <1>3, <2>1, <2>2, SubSeqProperties
  <2>4. n - 2 + 1 = n - 1 /\ (~ (2 <= n) => n - 1 = 0) /\ \A i \in 1..(n - 1) : 2 + i - 1 = i + 1
    OBVIOUS
  <2> QED BY <2>3, <2>4
<1>6. p = a \o b
  <2>1. 1 - 1 = 0 /\ 1 + 1 = 2
    OBVIOUS
  <2> QED BY <1>1, <1>3, <2>1 DEF WithoutAt
<1>7. p = b
  BY <1>4, <1>5, <1>6, ConcatEmptySeq
<1>8. 1 \in 1..n /\ \A i \in 1..(n - 1) : i + 1 \in 1..n
  OBVIOUS
<1> QED BY ONLY <1>1, <1>2, <1>5, <1>7, <1>8

\* A queue with one more.
LEMMA More ==
  ASSUME NEW S, NEW q \in Seq(S), NEW x \in S, NEW p, p = Append(q, x)
  PROVE  /\ p \in Seq(S) /\ Len(q) \in Nat /\ Len(p) = Len(q) + 1 /\ p # <<>> /\ p[Len(p)] = x
         /\ \A i \in 1..Len(p) : p[i] = IF i <= Len(q) THEN q[i] ELSE x
<1>1. PICK n \in Nat : n = Len(q)
  BY LenProperties
<1>2. /\ p \in Seq(S) /\ p # <<>> /\ Len(p) = n + 1
      /\ \A i \in 1..n : p[i] = q[i]
      /\ p[n + 1] = x
  BY <1>1, AppendProperties
<1> QED BY <1>1, <1>2

\* The segments of a client's stream, and what they bring.
LEMMA StreamSays ==
  ASSUME NEW s \in Stream
  PROVE  /\ s \in ClientSegments /\ "SYN" \notin s.flags /\ "RST" \notin s.flags /\ "ACK" \in s.flags
         /\ \E y \in Places :
              /\ s.seq = At(y)
              /\ \/ Plain(s)
                 \/ y \in Cuts /\ y <= Total /\ s.flags = {"ACK"} /\ s.len = SegLen /\ s.from = y
                 \/ y = Total + 1 /\ s.flags = {"ACK", "FIN"} /\ s.len = 0
<1>1. CASE \E y \in Places : s = BareAck(y)
  <2>1. PICK y \in Places : s = BareAck(y)
    BY <1>1
  <2>2. s.flags = {"ACK"} /\ s.len = 0 /\ s.seq = At(y)
    BY ONLY <2>1 DEF BareAck, At
  <2>3. s \in ClientSegments
    BY <2>1, Says
  <2> QED BY <2>2, <2>3 DEF Plain
<1>2. CASE \E y \in Cuts : s = ClientSegment(y)
  <2>1. PICK y \in Cuts : s = ClientSegment(y)
    BY <1>2
  <2>2. y \in 1..(Total + 1) /\ Total \in Nat /\ y \in Places
    BY CutsRange, StreamAssumption DEF Places
  <2>3. s.seq = At(y) /\ s \in ClientSegments
    BY <2>1, Says DEF ClientSegment, At
  <2>4. CASE y <= Total
    <3>1. y \in 1..Total /\ y # 0
      BY <2>2, <2>4
    <3>2. s.flags = {"ACK"} /\ s.len = SegLen /\ s.from = y
      BY ONLY <2>1, <2>4, <3>1 DEF ClientSegment
    <3> QED BY <2>2, <2>3, <2>4, <3>2
  <2>5. CASE ~ (y <= Total)
    <3>1. y \notin 1..Total /\ y # 0 /\ y = Total + 1
      BY <2>2, <2>5
    <3>2. s.flags = {"ACK", "FIN"} /\ s.len = 0
      BY ONLY <2>1, <2>5, <3>1 DEF ClientSegment
    <3> QED BY <2>2, <2>3, <3>1, <3>2
  <2> QED BY <2>4, <2>5
<1> QED BY <1>1, <1>2 DEF Stream

\* The first of a line is taken: what is left is one, and its FIN has only
\* acknowledgements behind it.
LEMMA LineRest ==
  ASSUME NEW c, NEW S, NEW q \in Seq(S), q # <<>>, Line(c, q), NEW p, p = WithoutAt(q, 1)
  PROVE  /\ Line(c, p) /\ q[1] \in Stream
         /\ "FIN" \in q[1].flags => c.snd = Total + 2 /\ \A i \in 1..Len(p) : Plain(p[i])
<1>1. /\ Len(q) \in Nat \ {0} /\ Len(p) = Len(q) - 1
      /\ \A i \in 1..Len(p) : i + 1 \in 1..Len(q) /\ p[i] = q[i + 1]
  BY RestOf
<1>2. PICK n \in Nat : n = Len(p) /\ n + 1 = Len(q)
  BY <1>1
<1>3. 1 \in 1..(n + 1)
  OBVIOUS
<1>4. q[1] \in Stream /\ ("FIN" \in q[1].flags => c.snd = Total + 2 /\ \A j \in 1..(n + 1) : j > 1 => Plain(q[j]))
  BY <1>2, <1>3 DEF Line
<1>5. \A i \in 1..n : i + 1 \in 1..(n + 1) /\ i + 1 > 1 /\ p[i] = q[i + 1]
  BY <1>1, <1>2
<1>6. Line(c, p)
  <2> SUFFICES ASSUME NEW i \in 1..n
               PROVE  /\ p[i] \in Stream
                      /\ "FIN" \in p[i].flags => c.snd = Total + 2 /\ \A j \in 1..n : j > i => Plain(p[j])
    BY <1>2 DEF Line
  <2>1. /\ q[i + 1] \in Stream
        /\ "FIN" \in q[i + 1].flags => c.snd = Total + 2 /\ \A j \in 1..(n + 1) : j > i + 1 => Plain(q[j])
    BY <1>2, <1>5 DEF Line
  <2>2. ASSUME NEW j \in 1..n, j > i, \A l \in 1..(n + 1) : l > i + 1 => Plain(q[l])
        PROVE  Plain(p[j])
    <3>1. j + 1 \in 1..(n + 1) /\ j + 1 > i + 1
      BY <2>2
    <3> QED BY <1>5, <2>2, <3>1
  <2> QED BY <1>5, <2>1, <2>2
<1> QED BY <1>2, <1>4, <1>5, <1>6

\* One more acknowledgement.
LEMMA LineMore ==
  ASSUME NEW c, NEW d, d.snd = c.snd, NEW S, NEW q \in Seq(S), Line(c, q), NEW x \in Stream, x \in S, Plain(x),
         NEW p, p = Append(q, x)
  PROVE  Line(d, p)
<1>1. PICK n \in Nat : n = Len(q) /\ Len(p) = n + 1 /\ \A i \in 1..(n + 1) : p[i] = IF i <= n THEN q[i] ELSE x
  BY More
<1> SUFFICES ASSUME NEW i \in 1..(n + 1)
             PROVE  /\ p[i] \in Stream
                    /\ "FIN" \in p[i].flags =>
                         d.snd = Total + 2 /\ \A j \in 1..(n + 1) : j > i => Plain(p[j])
  BY <1>1 DEF Line
<1>2. CASE i <= n
  <2>1. i \in 1..n /\ p[i] = q[i]
    BY <1>1, <1>2
  <2>2. /\ q[i] \in Stream
        /\ "FIN" \in q[i].flags => c.snd = Total + 2 /\ \A j \in 1..n : j > i => Plain(q[j])
    BY <1>1, <2>1 DEF Line
  <2>3. \A j \in 1..(n + 1) : j \in 1..n \/ ~ (j <= n)
    OBVIOUS
  <2> QED BY <1>1, <2>1, <2>2, <2>3
<1>3. CASE ~ (i <= n)
  BY <1>1, <1>3 DEF Plain
<1> QED BY <1>2, <1>3

\* A client that has not sent its FIN sends the next segment.
LEMMA LineSends ==
  ASSUME NEW c, NEW d, NEW S, NEW q \in Seq(S), Line(c, q), c.snd \in Cuts, d.snd = After(c.snd),
         NEW x, x = ClientSegment(c.snd), x \in S, NEW p, p = Append(q, x)
  PROVE  Line(d, p)
<1>1. PICK n \in Nat : n = Len(q) /\ Len(p) = n + 1 /\ \A i \in 1..(n + 1) : p[i] = IF i <= n THEN q[i] ELSE x
  BY More
<1>2. c.snd \in 1..(Total + 1) /\ Total \in Nat
  BY CutsRange, StreamAssumption
<1>3. x \in Stream
  BY DEF Stream
<1>4. "FIN" \in x.flags => d.snd = Total + 2
  <2> HAVE "FIN" \in x.flags
  <2>1. ~ (c.snd <= Total)
    BY <1>2 DEF ClientSegment
  <2> QED BY <1>2, <2>1, AfterPlace
<1> SUFFICES ASSUME NEW i \in 1..(n + 1)
             PROVE  /\ p[i] \in Stream
                    /\ "FIN" \in p[i].flags =>
                         d.snd = Total + 2 /\ \A j \in 1..(n + 1) : j > i => Plain(p[j])
  BY <1>1 DEF Line
<1>5. CASE i <= n
  <2>1. i \in 1..n /\ p[i] = q[i]
    BY <1>1, <1>5
  <2>2. q[i] \in Stream /\ "FIN" \notin q[i].flags
    BY <1>1, <1>2, <2>1 DEF Line
  <2> QED BY <2>1, <2>2
<1>6. CASE ~ (i <= n)
  <2>1. p[i] = x /\ \A j \in 1..(n + 1) : ~ (j > i)
    BY <1>1, <1>6
  <2> QED BY <1>3, <1>4, <2>1
<1> QED BY <1>5, <1>6

-----------------------------------------------------------------------------
(* What a client does, phase by phase *)

\* Everything a phase is about has its type.
Typed(c, q, r) == c \in Clients /\ q \in Seq(ClientSegments) /\ r \in Seq(ServerSegments)

\* ClientSends keeps the phase, or begins the connection.
LEMMA PhaseSends ==
  ASSUME NEW has, NEW conn, NEW h, NEW c, NEW q, NEW r, Typed(c, q, r), Phase(has, conn, c, q, r, h),
         c.state = "closed" \/ (c.state = "open" /\ c.snd # Total + 2),
         NEW d, d.snd = After(c.snd), d.una = c.una,
         d.state = IF c.state = "closed" THEN "syn_sent" ELSE c.state,
         NEW p, p = Append(q, ClientSegment(c.snd))
  PROVE  Phase(has, conn, d, p, r, h)
<1>0. /\ c.state \in {"closed", "syn_sent", "open", "done", "aborted"} /\ c.snd \in {0} \cup Places
      /\ q \in Seq(ClientSegments)
  BY DEF Typed, Clients
<1>1. CASE c.state = "closed"
  <2>1. Idle(has, c, q, r)
    BY <1>1 DEF Phase, Asking, Asked, Meeting, Talking, Parting
  <2>2. c.snd = 0 /\ c.una = 0 /\ q = <<>> /\ r = <<>> /\ ~ has
    BY <2>1 DEF Idle
  <2>3. d.snd = 1 /\ d.una = 0 /\ d.state = "syn_sent"
    BY <1>1, <2>2, AfterPlace
  <2>4. p = <<ClientSegment(0)>>
    BY <2>2
  <2>5. Asking(has, d, p, r)
    BY <2>2, <2>3, <2>4 DEF Asking
  <2> QED BY <2>5 DEF Phase
<1>2. CASE c.state # "closed"
  <2>1. c.state = "open" /\ c.snd # Total + 2 /\ d.state = "open"
    BY <1>2
  <2>2. Meeting(has, conn, c, q, r, h) \/ Talking(has, conn, c, q, h)
    BY <2>1 DEF Phase, Idle, Asking, Asked, Parting
  <2>3. Line(c, q)
    BY <2>2 DEF Meeting, Talking
  <2>4. c.snd \in Cuts
    <3>1. c.snd # 0
      BY <2>2 DEF Meeting, Talking
    <3> QED BY <1>0, <2>1, <3>1 DEF Places
  <2>5. PICK x : x = ClientSegment(c.snd)
    OBVIOUS
  <2>6. x \in ClientSegments
    BY <2>4, <2>5, Says
  <2>7. Line(d, p)
    BY <1>0, <2>3, <2>4, <2>5, <2>6, LineSends
  <2>8. p # <<>> /\ (q # <<>> => p[1] = q[1])
    <3>1. /\ p # <<>> /\ Len(p) = Len(q) + 1 /\ Len(q) \in Nat
          /\ \A i \in 1..Len(p) : p[i] = IF i <= Len(q) THEN q[i] ELSE x
      BY <1>0, <2>5, <2>6, More
    <3>2. q # <<>> => Len(q) \in Nat \ {0}
      BY <1>0, EmptySeq
    <3> QED BY <3>1, <3>2
  <2>11. d.snd # 0
    BY <2>4, AfterPlace, PlacesRange
  <2>9. CASE Meeting(has, conn, c, q, r, h)
    BY <2>1, <2>7, <2>8, <2>9, <2>11 DEF Meeting, Phase
  <2>10. CASE Talking(has, conn, c, q, h)
    BY <2>1, <2>7, <2>10, <2>11 DEF Talking, Phase
  <2> QED BY <2>2, <2>9, <2>10
<1> QED BY <1>1, <1>2

\* ClientResends: only in the conversation can the line be quiet with something
\* not acknowledged.
LEMMA PhaseResends ==
  ASSUME NEW has, NEW conn, NEW h, NEW c, NEW q, NEW r, Typed(c, q, r), Phase(has, conn, c, q, r, h),
         c.una < c.snd, q = <<>>, r = <<>>, c.state \in {"syn_sent", "open"},
         NEW p, p = <<ClientSegment(c.una)>>
  PROVE  Phase(has, conn, c, p, r, h)
<1>1. Len(r) = 0 /\ q # <<ClientSegment(0)>>
  BY EmptySeq
<1>2. c.snd \in 0..(Total + 2) /\ c.una \in {0} \cup Places /\ Total \in Nat
  <2>1. Total \in Nat
    BY StreamAssumption
  <2>2. \A z \in Places : z \in 1..(Total + 2)
    BY PlacesRange
  <2>3. (c.snd = 0 \/ c.snd \in Places) /\ c.una \in {0} \cup Places
    BY DEF Typed, Clients
  <2> QED BY ONLY <2>1, <2>2, <2>3
<1>3. ~ Idle(has, c, q, r) /\ ~ Asking(has, c, q, r) /\ ~ Meeting(has, conn, c, q, r, h)
      /\ ~ Asked(has, conn, c, q, r, h)
  BY <1>1 DEF Idle, Asking, Meeting, Asked
<1>4. ~ Parting(has, conn, c, q, r)
  BY <1>1, <1>2 DEF Parting, FinAcked
<1>5. Talking(has, conn, c, q, h)
  BY <1>3, <1>4 DEF Phase
<1>6. c.una \in Cuts
  BY <1>2, <1>5 DEF Talking, Places
<1>7. PICK x : x = ClientSegment(c.una)
  OBVIOUS
<1>8. x \in Stream /\ p = <<x>>
  BY <1>6, <1>7 DEF Stream
<1>9. "FIN" \in x.flags => c.snd = Total + 2
  <2> HAVE "FIN" \in x.flags
  <2>1. c.una \in 1..(Total + 1)
    BY <1>6, CutsRange
  <2>2. ~ (c.una <= Total)
    BY <1>7, <2>1 DEF ClientSegment
  <2> QED BY <1>2, <2>1, <2>2
<1>10. Line(c, p)
  BY <1>8, <1>9 DEF Line
<1> QED BY <1>5, <1>10 DEF Talking, Phase

\* The rest of what acknowledges the FIN, and more behind it.
LEMMA FinAckedMore ==
  ASSUME NEW c, NEW r \in Seq(ServerSegments), FinAcked(c, r), NEW o \in Seq(ServerSegments),
         NEW r2, r2 = r \o o
  PROVE  FinAcked(c, r2)
<1>1. PICK n \in Nat, m \in Nat : n = Len(r) /\ m = Len(o)
  BY LenProperties
<1>2. Len(r2) = n + m /\ \A i \in 1..(n + m) : r2[i] = IF i <= n THEN r[i] ELSE o[i - n]
  BY <1>1, ConcatProperties
<1>3. \A i \in 1..n : i \in 1..(n + m) /\ r2[i] = r[i]
  BY <1>2
<1> QED BY <1>1, <1>2, <1>3 DEF FinAcked

LEMMA FinAckedRest ==
  ASSUME NEW c, NEW r \in Seq(ServerSegments), r # <<>>, FinAcked(c, r), NEW r2, r2 = WithoutAt(r, 1),
         NEW d, c.una = Total + 2 => d.una = Total + 2,
         "UNREACH" \notin r[1].flags /\ r[1].ack = At(Total + 2) => d.una = Total + 2
  PROVE  FinAcked(d, r2)
<1>1. /\ Len(r) \in Nat \ {0} /\ Len(r2) = Len(r) - 1
      /\ \A i \in 1..Len(r2) : i + 1 \in 1..Len(r) /\ r2[i] = r[i + 1]
  BY RestOf
<1>2. PICK n \in Nat : n = Len(r2) /\ n + 1 = Len(r)
  BY <1>1
<1>3. \A i \in 1..(n + 1) : i = 1 \/ (i - 1 \in 1..n /\ r2[i - 1] = r[i])
  <2> SUFFICES ASSUME NEW i \in 1..(n + 1), i # 1 PROVE i - 1 \in 1..n /\ r2[i - 1] = r[i]
    OBVIOUS
  <2>1. i - 1 \in 1..n /\ (i - 1) + 1 = i
    OBVIOUS
  <2> QED BY <1>1, <1>2, <2>1
<1> QED BY <1>2, <1>3 DEF FinAcked

\* A client that was opened heeds a segment: what that changes of its place.
LEMMA HeededShows ==
  ASSUME NEW c \in Clients, NEW s \in ServerSegments, "UNREACH" \notin s.flags,
         NEW d, d = Heeded(c, s), c.state \in {"open", "done"}
  PROVE  /\ d.snd = c.snd /\ d.state \in {"open", "done"} /\ (c.una # 0 => d.una # 0)
         /\ c.snd = Total + 2 /\ (c.una = Total + 2 \/ s.ack = At(Total + 2)) => d.una = Total + 2
<1>1. PICK y \in Places : s.ack = At(y)
  BY DEF ServerSegments
<1>2. y \in 1..(Total + 2) /\ Total \in Nat /\ c.una \in 0..(Total + 2)
  <2>1. Total \in Nat
    BY StreamAssumption
  <2>2. \A z \in Places : z \in 1..(Total + 2)
    BY PlacesRange
  <2>3. c.una = 0 \/ c.una \in Places
    BY DEF Clients
  <2> QED BY ONLY <2>1, <2>2, <2>3, y \in Places
<1>3. AckedBy(s) = y
  BY <1>1, <1>2, PlacesRange DEF AckedBy
<1>4. PICK una : una = IF y \in c.una..c.snd THEN y ELSE c.una
  OBVIOUS
<1>5. /\ d.snd = c.snd /\ d.una = una /\ d.state \in {"open", "done"}
  BY <1>3, <1>4 DEF Heeded, Clients
<1>6. c.una # 0 => una # 0
  BY <1>2, <1>4
<1>7. s.ack = At(Total + 2) => y = Total + 2
  <2> HAVE s.ack = At(Total + 2)
  <2>1. PICK z \in 0..(Total + 2) : z = Total + 2 /\ At(y) = At(z) /\ y \in 0..(Total + 2)
    BY <1>1, <1>2
  <2> QED BY <2>1, PlaceOnce
<1> QED BY <1>2, <1>4, <1>5, <1>6, <1>7


\* What a client does with a segment, and what it answers.
Takes(c, s, q, d, q2) ==
  \/ "UNREACH" \in s.flags /\ d = c /\ q2 = q
  \/ /\ "UNREACH" \notin s.flags /\ c.state = "syn_sent"
     /\ IF "SYN" \in s.flags /\ AckedBy(s) = 1
        THEN d = Opened(c, s) /\ q2 = Append(q, BareAck(1))
        ELSE d = c /\ q2 = q
  \/ /\ "UNREACH" \notin s.flags /\ c.state \in {"open", "done"}
     /\ d = Heeded(c, s)
     /\ q2 = IF Space(s) > 0 THEN Append(q, BareAck(c.snd)) ELSE q
  \/ "UNREACH" \notin s.flags /\ c.state = "aborted"

\* ClientReceives keeps the phase, or answers the SYN-ACK.
LEMMA PhaseTakes ==
  ASSUME NEW has, NEW conn, NEW h, NEW c, NEW q, NEW r, Typed(c, q, r), Phase(has, conn, c, q, r, h),
         r # <<>>, NEW s, s = r[1], NEW r2, r2 = WithoutAt(r, 1), NEW d, NEW q2, Takes(c, s, q, d, q2)
  PROVE  Phase(has, conn, d, q2, r2, h)
<1>0. c \in Clients /\ q \in Seq(ClientSegments) /\ r \in Seq(ServerSegments)
  BY DEF Typed
<1>1. /\ r2 \in Seq(ServerSegments) /\ Len(r) \in Nat \ {0} /\ Len(r2) = Len(r) - 1
      /\ s \in ServerSegments
  BY <1>0, RestOf
<1>2. ~ Idle(has, c, q, r) /\ ~ Asking(has, c, q, r) /\ ~ Meeting(has, conn, c, q, r, h)
  BY DEF Idle, Asking, Meeting
<1>3. CASE Asked(has, conn, c, q, r, h)
  <2>1. /\ has /\ conn.state = "SYN_RECEIVED" /\ Even(conn, h)
        /\ c.state = "syn_sent" /\ c.snd = 1 /\ q = <<>>
        /\ Len(r) = 1 /\ "SYN" \in s.flags /\ "UNREACH" \notin s.flags /\ s.ack = At(1)
    BY <1>3 DEF Asked
  <2>2. AckedBy(s) = 1
    <3>1. 1 \in 0..(Total + 2)
      BY StreamAssumption
    <3> QED BY <2>1, <3>1, PlacesRange DEF AckedBy
  <2>3. d = Opened(c, s) /\ q2 = Append(q, BareAck(1))
    BY <2>1, <2>2 DEF Takes
  <2>4. PICK a : a = BareAck(1)
    OBVIOUS
  <2>5. a \in Stream /\ a \in ClientSegments /\ q2 = <<a>> /\ "FIN" \notin a.flags
    <3>1. 1 \in Places
      BY CutsRange DEF Places
    <3>2. a \in Stream
      BY <2>4, <3>1 DEF Stream
    <3>3. q2 = <<a>>
      BY <2>1, <2>3, <2>4
    <3> QED BY <2>4, <3>2, <3>3, StreamSays DEF BareAck
  <2>6. Line(d, q2) /\ q2 # <<>> /\ q2[1] = BareAck(1)
    BY <2>4, <2>5 DEF Line
  <2>7. d.state = "open" /\ d.una = 1 /\ d.snd = 1
    BY <1>0, <2>1, <2>3 DEF Opened, Clients
  <2>8. r2 = <<>>
    BY <1>1, <2>1, EmptySeq
  <2>9. Meeting(has, conn, d, q2, r2, h)
    BY <2>1, <2>6, <2>7, <2>8 DEF Meeting
  <2> QED BY <2>9 DEF Phase
<1>4. ASSUME c.state \in {"open", "done"}
      PROVE  /\ d.snd = c.snd /\ d.state \in {"open", "done"}
             /\ c.una # 0 => d.una # 0
             /\ q2 = q \/ q2 = Append(q, BareAck(c.snd))
             /\ c.snd = Total + 2 =>
                  /\ c.una = Total + 2 => d.una = Total + 2
                  /\ "UNREACH" \notin s.flags /\ s.ack = At(Total + 2) => d.una = Total + 2
  <2>2. CASE "UNREACH" \in s.flags
    BY <1>4, <2>2 DEF Takes
  <2>3. CASE "UNREACH" \notin s.flags
    <3>1. d = Heeded(c, s) /\ (q2 = q \/ q2 = Append(q, BareAck(c.snd)))
      BY <1>4, <2>3 DEF Takes
    <3>2. /\ d.snd = c.snd /\ d.state \in {"open", "done"} /\ (c.una # 0 => d.una # 0)
          /\ c.snd = Total + 2 /\ (c.una = Total + 2 \/ s.ack = At(Total + 2)) => d.una = Total + 2
      BY ONLY <1>0, <1>1, <1>4, <2>3, <3>1, HeededShows
    <3> QED BY <3>1, <3>2
  <2> QED BY <2>2, <2>3
<1>5. c.snd # 0 => BareAck(c.snd) \in Stream /\ BareAck(c.snd) \in ClientSegments /\ Plain(BareAck(c.snd))
  <2> HAVE c.snd # 0
  <2>1. c.snd \in Places
    BY <1>0 DEF Clients
  <2>2. PICK a : a = BareAck(c.snd)
    OBVIOUS
  <2>3. a \in Stream
    BY <2>1, <2>2 DEF Stream
  <2> QED BY <2>2, <2>3, StreamSays DEF BareAck, Plain
<1>6. CASE Talking(has, conn, c, q, h)
  <2>1. c.state \in {"open", "done"} /\ c.una # 0 /\ c.snd # 0 /\ Line(c, q)
    BY <1>6 DEF Talking
  <2>2. /\ d.snd = c.snd /\ d.state \in {"open", "done"} /\ d.una # 0
        /\ (q2 = q \/ q2 = Append(q, BareAck(c.snd)))
    BY <1>4, <2>1
  <2>3. Line(d, q2)
    <3>1. CASE q2 = q
      BY <2>1, <2>2, <3>1 DEF Line
    <3>2. CASE q2 = Append(q, BareAck(c.snd))
      <4>1. PICK x : x = BareAck(c.snd)
        OBVIOUS
      <4>2. x \in Stream /\ x \in ClientSegments /\ Plain(x) /\ q2 = Append(q, x)
        BY <1>5, <2>1, <3>2, <4>1
      <4> QED BY <1>0, <2>1, <2>2, <4>2, LineMore
    <3> QED BY <2>2, <3>1, <3>2
  <2>4. Talking(has, conn, d, q2, h)
    BY <1>6, <2>1, <2>2, <2>3 DEF Talking
  <2> QED BY <2>4 DEF Phase
<1>7. CASE Parting(has, conn, c, q, r)
  <2>1. /\ c.state \in {"open", "done"} /\ c.snd = Total + 2 /\ c.snd # 0
        /\ \A i \in 1..Len(q) : Plain(q[i])
        /\ FinAcked(c, r) /\ (has => conn.state \in {"LAST_ACK", "LISTEN"})
    BY <1>7, StreamAssumption DEF Parting
  <2>2. /\ d.snd = c.snd /\ d.state \in {"open", "done"}
        /\ (q2 = q \/ q2 = Append(q, BareAck(c.snd)))
    BY <1>4, <2>1
  <2>3. \A i \in 1..Len(q2) : Plain(q2[i])
    <3>1. CASE q2 = q
      BY <2>1, <3>1
    <3>2. CASE q2 = Append(q, BareAck(c.snd))
      <4>1. PICK x : x = BareAck(c.snd)
        OBVIOUS
      <4>2. x \in ClientSegments /\ Plain(x) /\ q2 = Append(q, x)
        BY <1>5, <2>1, <3>2, <4>1
      <4>3. Len(q) \in Nat /\ \A i \in 1..Len(q2) : q2[i] = IF i <= Len(q) THEN q[i] ELSE x
        BY <1>0, <4>2, More
      <4>4. Len(q2) \in Nat /\ \A i \in 1..Len(q2) : i <= Len(q) => i \in 1..Len(q)
        BY <1>0, <4>2, <4>3, More
      <4> QED BY <2>1, <4>2, <4>3, <4>4
    <3> QED BY <2>2, <3>1, <3>2
  <2>4. FinAcked(d, r2)
    <3>1. /\ c.una = Total + 2 => d.una = Total + 2
          /\ "UNREACH" \notin s.flags /\ s.ack = At(Total + 2) => d.una = Total + 2
      BY <1>4, <2>1
    <3> QED BY <1>0, <2>1, <3>1, FinAckedRest
  <2>5. Parting(has, conn, d, q2, r2)
    BY <2>1, <2>2, <2>3, <2>4 DEF Parting
  <2> QED BY <2>5 DEF Phase
<1> QED BY <1>2, <1>3, <1>6, <1>7 DEF Phase

-----------------------------------------------------------------------------
(* What tcp_in answers, phase by phase *)

\* Steps 1 to 3 of tcp_in leave three.conn and send out.
Answer(conn, seg, iss, before, len, three, out) ==
  \E one, two :
    /\ one = Advanced(conn, seg, iss) /\ two = tcp_send(one, len)
    /\ three = Finished(two, ReplyFlags(conn, seg), before + len)
    /\ out = Sent(one, len, before) \o three.out

\* The SYN of a new connection.
LEMMA AnswerToSyn ==
  ASSUME NEW conn, conn = Fresh, NEW seg, seg = ClientSegment(0), NEW iss \in 0..(SeqMod - 1),
         NEW before, NEW len, len = 0, NEW three, NEW out, Answer(conn, seg, iss, before, len, three, out)
  PROVE  /\ three.conn.state = "SYN_RECEIVED" /\ ~ three.conn.not_send_empty_ack
         /\ three.conn.ack = At(1)
         /\ \E x : out = <<x>> /\ x.flags = {"SYN", "ACK"} /\ x.ack = At(1)
<1>1. PICK one, two :
    /\ one = Advanced(conn, seg, iss) /\ two = tcp_send(one, len)
    /\ three = Finished(two, ReplyFlags(conn, seg), before + len)
    /\ out = Sent(one, len, before) \o three.out
  BY DEF Answer
<1>2. seg.flags = {"SYN"} /\ seg.seq = At(0) /\ Total \in Nat
  BY StreamAssumption DEF ClientSegment, At
<1>3. Add(seg.seq, 1) = At(1)
  <2>1. Add(At(0), 1) = At(0 + 1)
    BY <1>2, PlaceNext
  <2> QED BY <1>2, <2>1
<1>4. /\ conn.state = "LISTEN" /\ conn = [state |-> "LISTEN", not_send_empty_ack |-> FALSE, seq |-> 0, ack |-> 0]
  BY DEF Fresh
<1>5. one = [state |-> "SYN_RECEIVED", not_send_empty_ack |-> FALSE, seq |-> iss, ack |-> At(1)]
  BY ONLY <1>1, <1>3, <1>4 DEF Advanced
<1>6. two = one /\ Sent(one, len, before) = <<>>
  BY <1>1 DEF tcp_send, Sent
<1>7. ReplyFlags(conn, seg) = {"SYN", "ACK"}
  BY ONLY <1>4 DEF ReplyFlags
<1>8. {"SYN", "ACK"} # {} /\ {"SYN", "ACK"} # {"ACK"}
  OBVIOUS
<1>9. PICK a, x : a = Add(two.seq, bytes_in_flight(0, {"SYN", "ACK"}))
                  /\ x = tcp_out(two, {"SYN", "ACK"}, 0, before + len)
  OBVIOUS
<1>10. three = [conn |-> [two EXCEPT !.seq = a], out |-> <<x>>]
  BY ONLY <1>1, <1>7, <1>8, <1>9 DEF Finished
<1>11. three.conn = [state |-> "SYN_RECEIVED", not_send_empty_ack |-> FALSE, seq |-> a, ack |-> At(1)]
  BY ONLY <1>5, <1>6, <1>10
<1>12. out = <<x>>
  BY ONLY <1>1, <1>6, <1>10
<1>13. x.flags = {"SYN", "ACK"} /\ x.ack = At(1)
  BY ONLY <1>5, <1>6, <1>9 DEF tcp_out
<1> QED BY ONLY <1>11, <1>12, <1>13

\* A bare ACK in SYN_RECEIVED, or in LAST_ACK.
LEMMA AnswerToAck ==
  ASSUME NEW conn \in Conns, conn.state \in {"SYN_RECEIVED", "LAST_ACK"}, NEW seg, NEW iss,
         NEW before, NEW len, len = 0, NEW three, NEW out, Answer(conn, seg, iss, before, len, three, out)
  PROVE  /\ out = <<>>
         /\ conn.state = "SYN_RECEIVED" =>
              /\ three.conn.state = "ESTABLISHED" /\ three.conn.ack = conn.ack
              /\ three.conn.not_send_empty_ack = conn.not_send_empty_ack
<1>1. PICK one, two :
    /\ one = Advanced(conn, seg, iss) /\ two = tcp_send(one, len)
    /\ three = Finished(two, ReplyFlags(conn, seg), before + len)
    /\ out = Sent(one, len, before) \o three.out
  BY DEF Answer
<1>2. ReplyFlags(conn, seg) = {}
  BY DEF ReplyFlags
<1>3. three = [conn |-> two, out |-> <<>>]
  BY ONLY <1>1, <1>2 DEF Finished
<1>4. two = one /\ Sent(one, len, before) = <<>>
  BY <1>1 DEF tcp_send, Sent
<1>5. out = <<>>
  BY ONLY <1>1, <1>3, <1>4
<1>6. conn.state = "SYN_RECEIVED" => one = [conn EXCEPT !.state = "ESTABLISHED"]
  BY <1>1 DEF Advanced
<1>7. three.conn = one
  BY ONLY <1>3, <1>4
<1> QED BY <1>5, <1>6, <1>7 DEF Conns

\* A connection in ESTABLISHED, at position y.
Going(conn, s, y) == conn = [state |-> "ESTABLISHED", not_send_empty_ack |-> FALSE, seq |-> s, ack |-> At(y)]

\* A segment with flags f takes n sequence numbers.
Brings(seg, f, n) == seg.flags = f /\ bytes_in_flight(seg.len, f) = n

\* In ESTABLISHED, step 1 counts what the segment takes.
LEMMA Counts ==
  ASSUME NEW conn, NEW s, NEW y \in Nat, Going(conn, s, y), NEW seg, NEW f,
         NEW n \in Nat, Brings(seg, f, n), y + n <= Total + 2, NEW iss, NEW one,
         one = Advanced(conn, seg, iss), NEW st, st = IF "FIN" \in f THEN "LAST_ACK" ELSE "ESTABLISHED"
  PROVE  one = [state |-> st, not_send_empty_ack |-> FALSE, seq |-> s, ack |-> At(y + n)]
<1>1. conn.state = "ESTABLISHED" /\ conn.ack = At(y)
  BY DEF Going
<1>2. PICK a : a = Add(conn.ack, bytes_in_flight(seg.len, seg.flags))
  OBVIOUS
<1>3. a = At(y + n)
  <2>1. Add(At(y), n) = At(y + n)
    BY PlaceNext
  <2>2. bytes_in_flight(seg.len, seg.flags) = n
    BY ONLY Brings(seg, f, n) DEF Brings
  <2> QED BY ONLY <1>1, <1>2, <2>1, <2>2
<1>4. seg.flags = f
  BY DEF Brings
<1>5. one = [conn EXCEPT !.ack = a, !.state = st]
  BY ONLY <1>1, <1>2, <1>4, st = (IF "FIN" \in f THEN "LAST_ACK" ELSE "ESTABLISHED"),
          one = Advanced(conn, seg, iss) DEF Advanced
<1> QED BY ONLY <1>3, <1>5, Going(conn, s, y) DEF Going

\* A bare ACK changes nothing.
LEMMA AnswerToPlain ==
  ASSUME NEW conn, NEW s, NEW y \in Places, Going(conn, s, y), NEW seg, Plain(seg), NEW iss,
         NEW before, NEW len, len = 0, NEW three, NEW out, Answer(conn, seg, iss, before, len, three, out)
  PROVE  three.conn = conn /\ out = <<>>
<1>1. PICK one, two :
    /\ one = Advanced(conn, seg, iss) /\ two = tcp_send(one, len)
    /\ three = Finished(two, ReplyFlags(conn, seg), before + len)
    /\ out = Sent(one, len, before) \o three.out
  BY DEF Answer
<1>2. seg.len = 0 /\ seg.flags = {"ACK"} /\ "FIN" \notin {"ACK"}
  BY DEF Plain
<1>3. bytes_in_flight(0, {"ACK"}) = 0 /\ y \in Nat /\ y + 0 = y /\ y <= Total + 2
  BY Flight, PlacesRange, StreamAssumption
<1>4. one = conn
  <2>1. PICK f, st : f = {"ACK"} /\ st = IF "FIN" \in f THEN "LAST_ACK" ELSE "ESTABLISHED"
    OBVIOUS
  <2>2. Brings(seg, f, 0) /\ y + 0 <= Total + 2 /\ 0 \in Nat /\ st = "ESTABLISHED"
    BY <1>2, <1>3, <2>1 DEF Brings
  <2>3. one = [state |-> st, not_send_empty_ack |-> FALSE, seq |-> s, ack |-> At(y + 0)]
    BY ONLY <1>1, <1>3, <2>1, <2>2, Going(conn, s, y), Counts
  <2> QED BY ONLY <1>3, <2>2, <2>3, Going(conn, s, y) DEF Going
<1>5. ReplyFlags(conn, seg) = {}
  BY <1>2 DEF Going, ReplyFlags
<1>6. two = one /\ Sent(one, len, before) = <<>>
  BY <1>1 DEF tcp_send, Sent
<1>7. three = [conn |-> two, out |-> <<>>]
  BY ONLY <1>1, <1>5 DEF Finished
<1>8. out = <<>> \o <<>>
  BY ONLY <1>1, <1>6, <1>7
<1> QED BY <1>4, <1>6, <1>7, <1>8

\* Data is counted, and acknowledged by a segment of its own or with the answer.
LEMMA AnswerToData ==
  ASSUME NEW conn, NEW s, NEW y \in Cuts, y <= Total, Going(conn, s, y), NEW seg,
         seg.len = SegLen, seg.flags = {"ACK"}, NEW iss, NEW before, NEW len,
         NEW three, NEW out, Answer(conn, seg, iss, before, len, three, out)
  PROVE  /\ y + SegLen \in Cuts
         /\ three.conn.state = "ESTABLISHED" /\ ~ three.conn.not_send_empty_ack
         /\ three.conn.ack = At(y + SegLen)
         /\ \E x : out = <<x>> /\ x.ack = At(y + SegLen)
<1>1. PICK one, two :
    /\ one = Advanced(conn, seg, iss) /\ two = tcp_send(one, len)
    /\ three = Finished(two, ReplyFlags(conn, seg), before + len)
    /\ out = Sent(one, len, before) \o three.out
  BY DEF Answer
<1>2. y + SegLen \in Cuts /\ y \in Nat /\ SegLen \in Nat /\ SegLen > 0
  BY CutsRange, StreamAssumption
<1>3. y + SegLen <= Total + 2
  <2>1. y + SegLen \in 1..(Total + 1)
    BY <1>2, CutsRange
  <2> QED BY <2>1, StreamAssumption
<1>4. bytes_in_flight(SegLen, {"ACK"}) = SegLen /\ "FIN" \notin {"ACK"}
  BY <1>2, Flight
<1>5. PICK e : e = At(y + SegLen)
  OBVIOUS
<1>6. one = [state |-> "ESTABLISHED", not_send_empty_ack |-> FALSE, seq |-> s, ack |-> e]
  <2>1. PICK f, st : f = {"ACK"} /\ st = IF "FIN" \in f THEN "LAST_ACK" ELSE "ESTABLISHED"
    OBVIOUS
  <2>2. Brings(seg, f, SegLen) /\ st = "ESTABLISHED"
    BY <1>4, <2>1 DEF Brings
  <2>3. one = [state |-> st, not_send_empty_ack |-> FALSE, seq |-> s, ack |-> At(y + SegLen)]
    BY ONLY <1>1, <1>2, <1>3, <2>1, <2>2, Going(conn, s, y), Counts
  <2> QED BY ONLY <1>5, <2>2, <2>3
<1>7. ReplyFlags(conn, seg) = {"ACK"} /\ {"ACK"} # {}
  BY <1>2, <1>4 DEF Going, ReplyFlags
<1>8. CASE len = 0
  <2>1. two = one
    BY ONLY <1>1, <1>8 DEF tcp_send
  <2>2. Sent(one, len, before) = <<>>
    BY ONLY <1>8 DEF Sent
  <2>3. PICK a, x : a = Add(two.seq, bytes_in_flight(0, {"ACK"})) /\ x = tcp_out(two, {"ACK"}, 0, before + len)
    OBVIOUS
  <2>4. two.not_send_empty_ack = FALSE
    BY ONLY <1>6, <2>1
  <2>5. three = [conn |-> [two EXCEPT !.seq = a], out |-> <<x>>]
    BY ONLY <1>1, <1>7, <2>3, <2>4 DEF Finished
  <2>6. three.conn = [state |-> "ESTABLISHED", not_send_empty_ack |-> FALSE, seq |-> a, ack |-> e]
    BY ONLY <1>6, <2>1, <2>5
  <2>7. out = <<>> \o <<x>>
    BY ONLY <1>1, <2>2, <2>5
  <2>8. out = <<x>>
    BY <2>7
  <2>9. x.ack = e
    BY ONLY <1>6, <2>1, <2>3 DEF tcp_out
  <2> QED BY ONLY <1>2, <1>5, <2>6, <2>8, <2>9
<1>9. CASE len # 0
  <2>1. PICK a, x : a = Add(one.seq, len) /\ x = tcp_out(one, {"ACK"}, len, before)
    OBVIOUS
  <2>2. two = [one EXCEPT !.seq = a, !.not_send_empty_ack = TRUE]
    BY ONLY <1>1, <1>9, <2>1 DEF tcp_send
  <2>3. Sent(one, len, before) = <<x>>
    BY ONLY <1>9, <2>1 DEF Sent
  <2>4. two = [state |-> "ESTABLISHED", not_send_empty_ack |-> TRUE, seq |-> a, ack |-> e]
    BY ONLY <1>6, <2>2
  <2>5. two.not_send_empty_ack = TRUE
    BY ONLY <2>4
  <2>6. three = [conn |-> [two EXCEPT !.not_send_empty_ack = FALSE], out |-> <<>>]
    BY ONLY <1>1, <1>7, <2>5 DEF Finished
  <2>7. three.conn = [state |-> "ESTABLISHED", not_send_empty_ack |-> FALSE, seq |-> a, ack |-> e]
    BY ONLY <2>4, <2>6
  <2>8. out = <<x>> \o <<>>
    <3>1. three.out = <<>>
      BY ONLY <2>6
    <3> QED BY ONLY <1>1, <2>3, <3>1
  <2>9. out = <<x>>
    BY <2>8
  <2>10. x.ack = e
    BY ONLY <1>6, <2>1 DEF tcp_out
  <2> QED BY ONLY <1>2, <1>5, <2>7, <2>9, <2>10
<1> QED BY <1>8, <1>9

\* The FIN is answered with one.
LEMMA AnswerToFin ==
  ASSUME NEW conn, NEW s \in 0..(SeqMod - 1), NEW y, y = Total + 1, Going(conn, s, y), NEW seg,
         seg.len = 0, seg.flags = {"ACK", "FIN"}, NEW iss, NEW before \in Nat, NEW len, len = 0,
         NEW three, NEW out, Answer(conn, seg, iss, before, len, three, out)
  PROVE  /\ three.conn.state = "LAST_ACK" /\ three.conn.ack = At(Total + 2)
         /\ \E x : /\ out = <<x>> /\ x \in ServerSegments /\ x.ack = At(Total + 2)
                   /\ x.flags = {"ACK", "FIN"}
<1>1. PICK one, two :
    /\ one = Advanced(conn, seg, iss) /\ two = tcp_send(one, len)
    /\ three = Finished(two, ReplyFlags(conn, seg), before + len)
    /\ out = Sent(one, len, before) \o three.out
  BY DEF Answer
<1>2. PICK e : e = At(Total + 2)
  OBVIOUS
<1>3. bytes_in_flight(0, {"ACK", "FIN"}) = 0 + 1 /\ 0 + 1 = 1 /\ "FIN" \in {"ACK", "FIN"}
  BY Flight
<1>4. y \in Nat /\ y + 1 = Total + 2 /\ y + 1 <= Total + 2
  BY StreamAssumption
<1>5. one = [state |-> "LAST_ACK", not_send_empty_ack |-> FALSE, seq |-> s, ack |-> e]
  <2>1. bytes_in_flight(0, {"ACK", "FIN"}) = 1 /\ y + 1 <= Total + 2 /\ 1 \in Nat
    BY <1>3, <1>4
  <2>2. PICK f, st : f = {"ACK", "FIN"} /\ st = IF "FIN" \in f THEN "LAST_ACK" ELSE "ESTABLISHED"
    OBVIOUS
  <2>3. Brings(seg, f, 1) /\ st = "LAST_ACK"
    BY <2>1, <2>2 DEF Brings
  <2>4. one = [state |-> st, not_send_empty_ack |-> FALSE, seq |-> s, ack |-> At(y + 1)]
    BY ONLY <1>1, <1>4, <2>1, <2>2, <2>3, Going(conn, s, y), Counts
  <2> QED BY ONLY <1>2, <1>4, <2>3, <2>4
<1>6. ReplyFlags(conn, seg) = {"ACK", "FIN"} /\ {"ACK", "FIN"} # {} /\ {"ACK", "FIN"} # {"ACK"}
  BY <1>3 DEF Going, ReplyFlags
<1>7. two = one
  BY ONLY <1>1, len = 0 DEF tcp_send
<1>8. Sent(one, len, before) = <<>>
  BY ONLY len = 0 DEF Sent
<1>9. PICK a, x : a = Add(two.seq, bytes_in_flight(0, {"ACK", "FIN"}))
                  /\ x = tcp_out(two, {"ACK", "FIN"}, 0, before + len)
  OBVIOUS
<1>10. three = [conn |-> [two EXCEPT !.seq = a], out |-> <<x>>]
  BY ONLY <1>1, <1>6, <1>9 DEF Finished
<1>11. three.conn = [state |-> "LAST_ACK", not_send_empty_ack |-> FALSE, seq |-> a, ack |-> e]
  BY ONLY <1>5, <1>7, <1>10
<1>12. out = <<>> \o <<x>>
  BY ONLY <1>1, <1>8, <1>10
<1>13. out = <<x>>
  BY <1>12
<1>14. x.ack = e /\ x.flags = {"ACK", "FIN"}
  BY ONLY <1>5, <1>7, <1>9 DEF tcp_out
<1>15. x \in ServerSegments
  <2>1. Total + 2 \in Places /\ Total + 2 \in 0..(Total + 2)
    BY StreamAssumption DEF Places
  <2>2. e \in 0..(SeqMod - 1)
    BY <1>2, <2>1, PlacesRange
  <2>3. two.ack = At(Total + 2) /\ two \in Conns
    BY <1>2, <1>5, <1>7, <2>2 DEF Conns
  <2>4. PICK fl : fl = {"ACK", "FIN"}
    OBVIOUS
  <2>5. PICK from : from = before + len
    OBVIOUS
  <2>6. fl \in SUBSET {"SYN", "ACK", "FIN"} /\ from \in Nat /\ 0 \in Nat
    BY <2>4, <2>5
  <2>7. tcp_out(two, fl, 0, from) \in ServerSegments
    BY ONLY <2>1, <2>3, <2>6, TcpOut
  <2> QED BY ONLY <1>9, <2>4, <2>5, <2>7
<1> QED BY ONLY <1>2, <1>11, <1>13, <1>14, <1>15

\* The bytes of the next segment, behind those that were heard.
Data(n, from) == [i \in 1..n |-> from + i - 1]

LEMMA HeardNext ==
  ASSUME NEW h \in Seq(Nat), InOrder(h), NEW n \in Nat, NEW from, n = 0 \/ from = Len(h) + 1,
         NEW d, d = Data(n, from), NEW h2, h2 = h \o d
  PROVE  h2 \in Seq(Nat) /\ InOrder(h2) /\ Len(h2) = Len(h) + n
<1>1. PICK m \in Nat : m = Len(h)
  BY LenProperties
<1>2. d = [i \in 1..n |-> Len(h) + i]
  <2>1. CASE n = 0
    <3>1. 1..n = {}
      BY <2>1
    <3> QED BY <3>1 DEF Data
  <2>2. CASE n # 0
    <3>1. \A i \in 1..n : from + i - 1 = m + i
      BY <1>1, <2>2
    <3> QED BY <1>1, <3>1 DEF Data
  <2> QED BY <2>1, <2>2
<1> QED BY <1>2, InOrderMore

\* What is known when tcp_in gets the first of q, and steps 1 to 3 in full.
Given(has, conn, c, q, r, h) ==
  /\ conn \in Conns /\ (has \/ conn = Fresh) /\ h \in Seq(Nat) /\ InOrder(h)
  /\ Typed(c, q, r) /\ Phase(has, conn, c, q, r, h) /\ q # <<>>
Steps(conn, seg, h, r, three, h2, r2, iss, before, len, out, data) ==
  /\ ~ Ignored(conn, seg) /\ ~ OutOfOrder(conn, seg)
  /\ seg.len = 0 => len = 0
  /\ Answer(conn, seg, iss, before, len, three, out)
  /\ data = Data(seg.len, seg.from)
  /\ h2 = IF conn.state = "LISTEN" THEN data ELSE h \o data
  /\ r2 = r \o out
Does(conn, seg, h, r, three, h2, r2) ==
  \E iss \in 0..(SeqMod - 1), before \in Nat, len \in Nat :
    \E out, data : Steps(conn, seg, h, r, three, h2, r2, iss, before, len, out, data)

\* Meeting a SYN: the connection is accepted.
LEMMA AskingDoes ==
  ASSUME NEW has, NEW conn, NEW c, NEW q, NEW r, NEW h, Given(has, conn, c, q, r, h), Asking(has, c, q, r),
         NEW three, NEW h2, NEW r2, Does(conn, q[1], h, r, three, h2, r2), NEW q2, q2 = WithoutAt(q, 1)
  PROVE  h2 \in Seq(Nat) /\ InOrder(h2) /\ Asked(TRUE, three.conn, c, q2, r2, h2)
<1>1. PICK seg : seg = q[1]
  OBVIOUS
<1>2. /\ ~ has /\ conn = Fresh /\ c.state = "syn_sent" /\ c.snd = 1 /\ q = <<seg>> /\ r = <<>>
      /\ seg = ClientSegment(0) /\ q \in Seq(ClientSegments) /\ q # <<>>
  BY <1>1 DEF Given, Asking, Typed
<1>3. PICK iss \in 0..(SeqMod - 1), before \in Nat, len \in Nat :
        \E out, data : Steps(conn, seg, h, r, three, h2, r2, iss, before, len, out, data)
  BY <1>1 DEF Does
<1>4. PICK out, data : Steps(conn, seg, h, r, three, h2, r2, iss, before, len, out, data)
  BY <1>3
<1>4a. /\ seg.len = 0 => len = 0
       /\ Answer(conn, seg, iss, before, len, three, out)
       /\ data = Data(seg.len, seg.from)
       /\ h2 = IF conn.state = "LISTEN" THEN data ELSE h \o data
       /\ r2 = r \o out
  BY <1>4 DEF Steps
<1>5. seg.len = 0 /\ len = 0 /\ conn.state = "LISTEN"
  BY <1>2, <1>4a, StreamAssumption DEF ClientSegment, Fresh
<1>6. /\ three.conn.state = "SYN_RECEIVED" /\ ~ three.conn.not_send_empty_ack /\ three.conn.ack = At(1)
      /\ \E x : out = <<x>> /\ x.flags = {"SYN", "ACK"} /\ x.ack = At(1)
  BY ONLY <1>2, <1>4a, <1>5, AnswerToSyn
<1>7. PICK x : out = <<x>> /\ x.flags = {"SYN", "ACK"} /\ x.ack = At(1)
  BY <1>6
<1>8. h2 = Data(0, seg.from)
  BY <1>4a, <1>5
<1>9. h2 \in Seq(Nat) /\ Len(h2) = 0
  <2>1. h2 \in [1..0 -> Nat]
    BY <1>8 DEF Data
  <2> QED BY <2>1
<1>10. InOrder(h2)
  BY <1>9 DEF InOrder
<1>11. Even(three.conn, h2)
  BY <1>6, <1>9, CutsRange DEF Even
<1>12. q2 = <<>>
  <2>1. q2 \in Seq(ClientSegments) /\ Len(q2) = Len(q) - 1
    BY <1>2, RestOf
  <2>2. Len(q) = 1
    BY <1>2
  <2> QED BY <2>1, <2>2, EmptySeq
<1>13. r2 = <<x>>
  BY <1>2, <1>4a, <1>7
<1>14. Len(r2) = 1 /\ r2[1] = x
  BY <1>13
<1>15. "SYN" \in x.flags /\ "UNREACH" \notin x.flags
  BY <1>7
<1> QED BY <1>2, <1>6, <1>7, <1>9, <1>10, <1>11, <1>12, <1>14, <1>15 DEF Asked

\* A bare ACK in SYN_RECEIVED or in LAST_ACK: nothing is heard, nothing answered.
LEMMA AckDoes ==
  ASSUME NEW has, NEW conn, NEW c, NEW q, NEW r, NEW h, Given(has, conn, c, q, r, h),
         conn.state \in {"SYN_RECEIVED", "LAST_ACK"}, NEW seg, Plain(seg),
         NEW three, NEW h2, NEW r2, Does(conn, seg, h, r, three, h2, r2)
  PROVE  /\ h2 \in Seq(Nat) /\ InOrder(h2) /\ Len(h2) = Len(h) /\ r2 = r
         /\ conn.state = "SYN_RECEIVED" =>
              /\ three.conn.state = "ESTABLISHED" /\ three.conn.ack = conn.ack
              /\ three.conn.not_send_empty_ack = conn.not_send_empty_ack
<1>2. PICK iss \in 0..(SeqMod - 1), before \in Nat, len \in Nat :
        \E out, data : Steps(conn, seg, h, r, three, h2, r2, iss, before, len, out, data)
  BY DEF Does
<1>3. PICK out, data : Steps(conn, seg, h, r, three, h2, r2, iss, before, len, out, data)
  BY <1>2
<1>3a. /\ seg.len = 0 => len = 0
       /\ Answer(conn, seg, iss, before, len, three, out)
       /\ data = Data(seg.len, seg.from)
       /\ h2 = IF conn.state = "LISTEN" THEN data ELSE h \o data
       /\ r2 = r \o out
  BY <1>3 DEF Steps
<1>4. seg.len = 0 /\ len = 0
  BY <1>3a DEF Plain
<1>5. conn \in Conns /\ r \in Seq(ServerSegments) /\ h \in Seq(Nat) /\ InOrder(h)
  BY DEF Given, Typed
<1>6. /\ out = <<>>
      /\ conn.state = "SYN_RECEIVED" =>
           /\ three.conn.state = "ESTABLISHED" /\ three.conn.ack = conn.ack
           /\ three.conn.not_send_empty_ack = conn.not_send_empty_ack
  BY ONLY <1>3a, <1>4, <1>5, conn.state \in {"SYN_RECEIVED", "LAST_ACK"}, AnswerToAck
<1>7. r2 = r
  BY <1>3a, <1>5, <1>6
<1>8. h2 \in Seq(Nat) /\ InOrder(h2) /\ Len(h2) = Len(h) + 0
  <2>1. h2 = h \o data /\ data = Data(0, seg.from) /\ 0 \in Nat
    BY <1>3a, <1>4
  <2> QED BY <1>5, <2>1, HeardNext
<1> QED BY <1>5, <1>6, <1>7, <1>8

\* The ACK of the handshake.
LEMMA MeetingDoes ==
  ASSUME NEW has, NEW conn, NEW c, NEW q, NEW r, NEW h, Given(has, conn, c, q, r, h), Meeting(has, conn, c, q, r, h),
         NEW three, NEW h2, NEW r2, Does(conn, q[1], h, r, three, h2, r2), NEW q2, q2 = WithoutAt(q, 1)
  PROVE  h2 \in Seq(Nat) /\ InOrder(h2) /\ Talking(TRUE, three.conn, c, q2, h2)
<1>1. /\ conn.state = "SYN_RECEIVED" /\ Even(conn, h) /\ c.state = "open" /\ c.una # 0 /\ c.snd # 0
      /\ Line(c, q) /\ q[1] = BareAck(1) /\ q \in Seq(ClientSegments) /\ q # <<>>
  BY DEF Meeting, Given, Typed
<1>2. Plain(q[1])
  BY <1>1 DEF Plain, BareAck
<1>3. /\ h2 \in Seq(Nat) /\ InOrder(h2) /\ Len(h2) = Len(h)
      /\ three.conn.state = "ESTABLISHED" /\ three.conn.ack = conn.ack
      /\ three.conn.not_send_empty_ack = conn.not_send_empty_ack
  <2>1. conn.state \in {"SYN_RECEIVED", "LAST_ACK"}
    BY <1>1
  <2>2. PICK seg : seg = q[1]
    OBVIOUS
  <2>3. Plain(seg) /\ Does(conn, seg, h, r, three, h2, r2)
    BY <1>2, <2>2
  <2> QED BY ONLY <1>1, <2>1, <2>3, Given(has, conn, c, q, r, h), AckDoes
<1>4. Line(c, q2)
  BY <1>1, LineRest
<1> QED BY <1>1, <1>3, <1>4 DEF Even, Talking

\* What is consumed is acknowledged by a segment.
Replies(conn, next, r, r2) == next.ack # conn.ack => \E x : r2 = r \o <<x>> /\ x.ack = next.ack

\* What came in order in ESTABLISHED: the conversation goes on, or its FIN came.
LEMMA TalkingDoes ==
  ASSUME NEW has, NEW conn, NEW c, NEW q, NEW r, NEW h, Given(has, conn, c, q, r, h), Talking(has, conn, c, q, h),
         NEW three, NEW h2, NEW r2, Does(conn, q[1], h, r, three, h2, r2), NEW q2, q2 = WithoutAt(q, 1)
  PROVE  /\ h2 \in Seq(Nat) /\ InOrder(h2)
         /\ Talking(TRUE, three.conn, c, q2, h2) \/ Parting(TRUE, three.conn, c, q2, r2)
         /\ Replies(conn, three.conn, r, r2)
<1>1. PICK seg, y : seg = q[1] /\ y = Len(h) + 1
  OBVIOUS
<1>2. /\ conn.state = "ESTABLISHED" /\ Even(conn, h) /\ c.state \in {"open", "done"} /\ c.una # 0 /\ c.snd # 0
      /\ Line(c, q) /\ q \in Seq(ClientSegments) /\ q # <<>> /\ r \in Seq(ServerSegments)
      /\ h \in Seq(Nat) /\ InOrder(h) /\ conn \in Conns
  BY DEF Talking, Given, Typed
<1>3. /\ conn.not_send_empty_ack = FALSE /\ y \in Cuts /\ conn.ack = At(y) /\ conn.seq \in 0..(SeqMod - 1)
  BY <1>1, <1>2 DEF Even, Conns
<1>4. Going(conn, conn.seq, y)
  BY <1>2, <1>3 DEF Going, Conns
<1>5. PICK iss \in 0..(SeqMod - 1), before \in Nat, len \in Nat :
        \E out, data : Steps(conn, seg, h, r, three, h2, r2, iss, before, len, out, data)
  BY <1>1 DEF Does
<1>6. PICK out, data : Steps(conn, seg, h, r, three, h2, r2, iss, before, len, out, data)
  BY <1>5
<1>7. /\ seg.seq = conn.ack
      /\ seg.len = 0 => len = 0
      /\ Answer(conn, seg, iss, before, len, three, out)
      /\ data = Data(seg.len, seg.from)
      /\ h2 = h \o data
      /\ r2 = r \o out
  BY <1>2, <1>6 DEF Steps, OutOfOrder
<1>8. /\ Line(c, q2) /\ seg \in Stream
      /\ "FIN" \in seg.flags => c.snd = Total + 2 /\ \A i \in 1..Len(q2) : Plain(q2[i])
  BY <1>1, <1>2, LineRest
<1>9. PICK z \in Places :
        /\ seg.seq = At(z)
        /\ \/ Plain(seg)
           \/ z \in Cuts /\ z <= Total /\ seg.flags = {"ACK"} /\ seg.len = SegLen /\ seg.from = z
           \/ z = Total + 1 /\ seg.flags = {"ACK", "FIN"} /\ seg.len = 0
  BY <1>8, StreamSays
<1>10. z = y
  <2>1. Total \in Nat /\ z \in 1..(Total + 2) /\ y \in 1..(Total + 1)
    BY <1>3, PlacesRange, CutsRange, StreamAssumption
  <2>2. z \in 0..(Total + 2) /\ y \in 0..(Total + 2) /\ At(z) = At(y)
    BY <1>3, <1>7, <1>9, <2>1
  <2> QED BY ONLY <2>2, PlaceOnce
<1>11. y \in Places
  BY <1>3 DEF Places
<1>12. ASSUME NEW n \in Nat, seg.len = n, n = 0 \/ seg.from = y
       PROVE  h2 \in Seq(Nat) /\ InOrder(h2) /\ Len(h2) = Len(h) + n
  <2>1. PICK from : from = seg.from
    OBVIOUS
  <2>2. data = Data(n, from) /\ (n = 0 \/ from = Len(h) + 1)
    BY <1>1, <1>7, <1>12, <2>1
  <2>3. h \in Seq(Nat) /\ InOrder(h) /\ h2 = h \o data
    BY <1>2, <1>7
  <2> QED BY ONLY <2>2, <2>3, n \in Nat, HeardNext
<1>13. CASE Plain(seg)
  <2>1. seg.len = 0 /\ len = 0
    BY <1>7, <1>13 DEF Plain
  <2>2. three.conn = conn /\ out = <<>>
    BY ONLY <1>4, <1>7, <1>11, <1>13, <2>1, AnswerToPlain
  <2>3. h2 \in Seq(Nat) /\ InOrder(h2) /\ Len(h2) = Len(h) + 0
    BY <1>12, <2>1
  <2>4. Even(conn, h2)
    BY <1>2, <2>3 DEF Even
  <2> QED BY <1>2, <1>8, <2>2, <2>3, <2>4 DEF Talking, Replies
<1>14. CASE y \in Cuts /\ y <= Total /\ seg.flags = {"ACK"} /\ seg.len = SegLen /\ seg.from = y
  <2>1. /\ y + SegLen \in Cuts
        /\ three.conn.state = "ESTABLISHED" /\ ~ three.conn.not_send_empty_ack
        /\ three.conn.ack = At(y + SegLen)
        /\ \E x : out = <<x>> /\ x.ack = At(y + SegLen)
    BY ONLY <1>4, <1>7, <1>14, AnswerToData
  <2>2. SegLen \in Nat
    BY StreamAssumption
  <2>3. h2 \in Seq(Nat) /\ InOrder(h2) /\ Len(h2) = Len(h) + SegLen
    BY <1>12, <1>14, <2>2
  <2>4. Len(h2) + 1 = y + SegLen
    BY <1>1, <1>2, <2>2, <2>3
  <2>5. Even(three.conn, h2)
    BY <2>1, <2>4 DEF Even
  <2>6. Talking(TRUE, three.conn, c, q2, h2)
    BY <1>2, <1>8, <2>1, <2>5 DEF Talking
  <2> QED BY <1>7, <2>1, <2>3, <2>6 DEF Replies
<1>15. CASE y = Total + 1 /\ seg.flags = {"ACK", "FIN"} /\ seg.len = 0
  <2>1. len = 0 /\ "FIN" \in seg.flags /\ Going(conn, conn.seq, y)
    BY <1>4, <1>7, <1>15
  <2>2. /\ three.conn.state = "LAST_ACK" /\ three.conn.ack = At(Total + 2)
        /\ \E x : /\ out = <<x>> /\ x \in ServerSegments /\ x.ack = At(Total + 2)
                  /\ x.flags = {"ACK", "FIN"}
    <3>1. PICK s \in 0..(SeqMod - 1) : s = conn.seq
      BY <1>3
    <3>2. Going(conn, s, y) /\ Answer(conn, seg, iss, before, len, three, out)
      BY <1>7, <2>1, <3>1
    <3> QED BY ONLY <1>15, <2>1, <3>2, before \in Nat, AnswerToFin
  <2>3. PICK x : /\ out = <<x>> /\ x \in ServerSegments /\ x.ack = At(Total + 2)
                 /\ x.flags = {"ACK", "FIN"}
    BY <2>2
  <2>4. h2 \in Seq(Nat) /\ InOrder(h2)
    BY <1>12, <1>15
  <2>5. FinAcked(c, r2)
    <3>1. r2 = Append(r, x)
      BY <1>2, <1>7, <2>3
    <3>2. Len(r2) = Len(r) + 1 /\ Len(r) \in Nat /\ r2[Len(r2)] = x
      BY <1>2, <2>3, <3>1, More
    <3>3. Len(r2) \in 1..Len(r2) /\ "UNREACH" \notin r2[Len(r2)].flags /\ r2[Len(r2)].ack = At(Total + 2)
      BY <2>3, <3>2
    <3> QED BY <3>3 DEF FinAcked
  <2>6. Parting(TRUE, three.conn, c, q2, r2)
    BY <1>2, <1>8, <2>1, <2>2, <2>5 DEF Parting
  <2> QED BY <1>7, <2>2, <2>3, <2>4, <2>6 DEF Replies
<1> QED BY <1>9, <1>10, <1>13, <1>14, <1>15

\* After the FIN only acknowledgements come; the one in LAST_ACK closes.
LEMMA PartingDoes ==
  ASSUME NEW has, NEW conn, NEW c, NEW q, NEW r, NEW h, Given(has, conn, c, q, r, h), Parting(has, conn, c, q, r),
         NEW three, NEW h2, NEW r2, Does(conn, q[1], h, r, three, h2, r2), NEW q2, q2 = WithoutAt(q, 1)
  PROVE  conn.state = "LAST_ACK" /\ h2 \in Seq(Nat) /\ InOrder(h2) /\ Parting(FALSE, three.conn, c, q2, r2)
<1>1. /\ has \/ conn = Fresh
      /\ has => conn.state \in {"LAST_ACK", "LISTEN"}
      /\ c.state \in {"open", "done"} /\ c.snd = Total + 2
      /\ \A i \in 1..Len(q) : Plain(q[i])
      /\ FinAcked(c, r) /\ q \in Seq(ClientSegments) /\ q # <<>>
  BY DEF Parting, Given, Typed
<1>2. /\ Len(q) \in Nat \ {0}
      /\ \A i \in 1..Len(q2) : i + 1 \in 1..Len(q) /\ q2[i] = q[i + 1]
  BY <1>1, RestOf
<1>3. Plain(q[1])
  BY <1>1, <1>2
<1>4. ~ Ignored(conn, q[1])
  BY DEF Does, Steps
<1>5. conn.state = "LAST_ACK"
  <2>1. conn.state # "LISTEN"
    BY <1>3, <1>4 DEF Ignored, Plain
  <2> QED BY <1>1, <2>1 DEF Fresh
<1>6. h2 \in Seq(Nat) /\ InOrder(h2) /\ r2 = r
  <2>1. conn.state \in {"SYN_RECEIVED", "LAST_ACK"}
    BY <1>5
  <2>2. PICK seg : seg = q[1]
    OBVIOUS
  <2>3. Plain(seg) /\ Does(conn, seg, h, r, three, h2, r2)
    BY <1>3, <2>2
  <2> QED BY ONLY <2>1, <2>3, Given(has, conn, c, q, r, h), AckDoes
<1>7. \A i \in 1..Len(q2) : Plain(q2[i])
  BY <1>1, <1>2
<1> QED BY <1>1, <1>5, <1>6, <1>7 DEF Parting

\* Steps 1 to 3 lead from each phase to the same or the next one, and what is
\* heard stays in order.
LEMMA PhaseProcess ==
  ASSUME NEW has, NEW conn, NEW c, NEW q, NEW r, NEW h, Given(has, conn, c, q, r, h),
         NEW three, NEW h2, NEW r2, Does(conn, q[1], h, r, three, h2, r2), NEW q2, q2 = WithoutAt(q, 1),
         NEW has2, conn.state = "LAST_ACK" <=> ~ has2
  PROVE  InOrder(h2) /\ Phase(has2, three.conn, c, q2, r2, h2)
<1>0. Given(has, conn, c, q, r, h) /\ Does(conn, q[1], h, r, three, h2, r2) /\ q2 = WithoutAt(q, 1)
  OBVIOUS
<1>1. /\ Phase(has, conn, c, q, r, h) /\ q # <<>> /\ (has \/ conn = Fresh)
  BY DEF Given
<1>2. ~ Idle(has, c, q, r) /\ ~ Asked(has, conn, c, q, r, h)
  BY <1>1 DEF Idle, Asked
<1>3. CASE Asking(has, c, q, r)
  <2>1. has2
    BY <1>1, <1>3 DEF Asking, Fresh
  <2>2. InOrder(h2) /\ Asked(TRUE, three.conn, c, q2, r2, h2)
    BY ONLY <1>0, <1>3, AskingDoes
  <2>3. Asked(has2, three.conn, c, q2, r2, h2)
    BY ONLY <2>1, <2>2 DEF Asked
  <2> QED BY ONLY <2>2, <2>3 DEF Phase
<1>4. CASE Meeting(has, conn, c, q, r, h)
  <2>1. has2
    BY <1>4 DEF Meeting
  <2>2. InOrder(h2) /\ Talking(TRUE, three.conn, c, q2, h2)
    BY ONLY <1>0, <1>4, MeetingDoes
  <2>3. Talking(has2, three.conn, c, q2, h2)
    BY ONLY <2>1, <2>2 DEF Talking
  <2> QED BY ONLY <2>2, <2>3 DEF Phase
<1>5. CASE Talking(has, conn, c, q, h)
  <2>1. has2
    BY <1>5 DEF Talking
  <2>2. InOrder(h2) /\ (Talking(TRUE, three.conn, c, q2, h2) \/ Parting(TRUE, three.conn, c, q2, r2))
    BY ONLY <1>0, <1>5, TalkingDoes
  <2>3. CASE Talking(TRUE, three.conn, c, q2, h2)
    <3>1. Talking(has2, three.conn, c, q2, h2)
      BY ONLY <2>1, <2>3 DEF Talking
    <3> QED BY ONLY <2>2, <3>1 DEF Phase
  <2>4. CASE Parting(TRUE, three.conn, c, q2, r2)
    <3>1. Parting(has2, three.conn, c, q2, r2)
      BY ONLY <2>1, <2>4 DEF Parting
    <3> QED BY ONLY <2>2, <3>1 DEF Phase
  <2> QED BY <2>2, <2>3, <2>4
<1>6. CASE Parting(has, conn, c, q, r)
  <2>1. conn.state = "LAST_ACK" /\ InOrder(h2) /\ Parting(FALSE, three.conn, c, q2, r2)
    BY <1>6, PartingDoes
  <2>2. ~ has2
    BY <2>1
  <2> QED BY <2>1, <2>2 DEF Phase, Parting
<1> QED BY <1>1, <1>2, <1>3, <1>4, <1>5, <1>6 DEF Phase

\* What is dropped, in order or not, leaves a phase as it is.
LEMMA PhaseDiscard ==
  ASSUME NEW has, NEW conn, NEW c, NEW q, NEW r, NEW h, Given(has, conn, c, q, r, h),
         NEW r2, (Ignored(conn, q[1]) /\ r2 = r) \/ OutOfOrder(conn, q[1]), NEW q2, q2 = WithoutAt(q, 1),
         NEW has2, has2
  PROVE  Phase(has2, conn, c, q2, r2, h)
<1>0. PICK seg : seg = q[1]
  OBVIOUS
<1>1. /\ Phase(has, conn, c, q, r, h) /\ q # <<>> /\ (has \/ conn = Fresh) /\ q \in Seq(ClientSegments)
  BY DEF Given, Typed
<1>2. ~ Idle(has, c, q, r) /\ ~ Asked(has, conn, c, q, r, h)
  BY <1>1 DEF Idle, Asked
<1>3. Ignored(conn, seg) \/ OutOfOrder(conn, seg)
  BY <1>0
<1>4. ~ Asking(has, c, q, r)
  <2> SUFFICES ASSUME Asking(has, c, q, r) PROVE FALSE
    OBVIOUS
  <2>1. conn = Fresh /\ seg = ClientSegment(0)
    BY <1>0, <1>1 DEF Asking
  <2>2. conn.state = "LISTEN" /\ "SYN" \in seg.flags
    BY <2>1 DEF Fresh, ClientSegment
  <2> QED BY <1>3, <2>2 DEF Ignored, OutOfOrder
<1>5. ~ Meeting(has, conn, c, q, r, h)
  <2> SUFFICES ASSUME Meeting(has, conn, c, q, r, h) PROVE FALSE
    OBVIOUS
  <2>1. conn.state = "SYN_RECEIVED" /\ "ACK" \in seg.flags
    BY <1>0 DEF Meeting, BareAck
  <2> QED BY <1>3, <2>1 DEF Ignored, OutOfOrder
<1>6. CASE Talking(has, conn, c, q, h)
  <2>1. Line(c, q2)
    BY <1>1, <1>6, LineRest DEF Talking
  <2>2. Talking(has2, conn, c, q2, h)
    BY <1>6, <2>1 DEF Talking
  <2> QED BY <2>2 DEF Phase
<1>7. CASE Parting(has, conn, c, q, r)
  <2>1. conn.state \in {"LAST_ACK", "LISTEN"}
    BY <1>1, <1>7 DEF Parting, Fresh
  <2>2. r2 = r
    BY <2>1 DEF OutOfOrder
  <2>3. \A i \in 1..Len(q2) : i + 1 \in 1..Len(q) /\ q2[i] = q[i + 1]
    BY <1>1, RestOf
  <2>4. Parting(has2, conn, c, q2, r2)
    BY <1>7, <2>1, <2>2, <2>3 DEF Parting
  <2> QED BY <2>4 DEF Phase
<1> QED BY <1>1, <1>2, <1>4, <1>5, <1>6, <1>7 DEF Phase

\* A phase does not look at the connection of a key that has none.
LEMMA PhaseSame ==
  ASSUME NEW has, NEW conn, NEW c, NEW q, NEW r, NEW h, Phase(has, conn, c, q, r, h),
         NEW has2, has2 <=> has, NEW conn2, has => conn2 = conn
  PROVE  Phase(has2, conn2, c, q, r, h)
<1>1. CASE ~ has
  <2>1. Idle(has2, c, q, r) \/ Asking(has2, c, q, r) \/ Parting(has2, conn2, c, q, r)
    BY <1>1 DEF Phase, Idle, Asking, Asked, Meeting, Talking, Parting
  <2> QED BY <2>1 DEF Phase
<1>2. CASE has
  <2>1. conn2 = conn
    BY <1>2
  <2>2. \/ Asked(has2, conn2, c, q, r, h) \/ Meeting(has2, conn2, c, q, r, h)
        \/ Talking(has2, conn2, c, q, h) \/ Parting(has2, conn2, c, q, r)
    BY <1>2, <2>1 DEF Phase, Idle, Asking, Asked, Meeting, Talking, Parting
  <2> QED BY <2>2 DEF Phase
<1> QED BY <1>1, <1>2

\* No client aborts: the segments of a phase are no RST.
LEMMA NoReset ==
  ASSUME NEW has, NEW conn, NEW c, NEW q, NEW r, NEW h, Phase(has, conn, c, q, r, h), q \in Seq(ClientSegments),
         q # <<>>
  PROVE  "RST" \notin q[1].flags
<1>1. 1 \in 1..Len(q)
  BY RestOf
<1>2. CASE Asking(has, c, q, r)
  BY <1>2 DEF Asking, ClientSegment
<1>3. CASE Meeting(has, conn, c, q, r, h)
  BY <1>3 DEF Meeting, BareAck
<1>4. CASE Talking(has, conn, c, q, h)
  BY <1>1, <1>4, StreamSays DEF Talking, Line
<1>5. CASE Parting(has, conn, c, q, r)
  BY <1>1, <1>5 DEF Parting, Plain
<1> QED BY <1>2, <1>3, <1>4, <1>5 DEF Phase, Idle, Asked

-----------------------------------------------------------------------------
(* The connection table *)

\* What shows to no client of q twice does not show.
LEMMA SameTwice ==
  ASSUME NEW q, NEW m, NEW t, NEW w, NEW now, SameFor(q, m, t, now), SameFor(q, t, w, now)
  PROVE  SameFor(q, m, w, now)
BY DEF SameFor

\* tcp_get_connection gives the connection there is or a new one, if there is room.
LEMMA GetShows ==
  ASSUME ServerTyped, NEW k \in Keys, NEW t, t = tcp_get_connection(k)
  PROVE  /\ \A q \in Keys \ {k} : SameFor(q, tcp_conn_table, t, Time)
         /\ MapHas(tcp_conn_table, k, Time) => t = tcp_conn_table
         /\ MapHas(t, k, Time) /\ ~ MapHas(tcp_conn_table, k, Time) => SlotOf(t, k, Time).val = Fresh
<1>0. Time \in Nat \ {0} /\ MapInv(tcp_conn_table, Keys, Conns, Time) /\ Fresh \in Conns
  BY FreshConn DEF ServerTyped, FreshOK, Time
<1>1. CASE MapHas(tcp_conn_table, k, Time)
  <2>1. t = tcp_conn_table
    BY <1>1 DEF tcp_get_connection
  <2> QED BY <1>1, <2>1 DEF SameFor
<1>2. CASE ~ MapHas(tcp_conn_table, k, Time)
  <2>1. AfterSet(tcp_conn_table, k, Fresh, Time, t)
    BY <1>2 DEF tcp_get_connection, AfterSet
  <2>2. Others(Keys, {k}, tcp_conn_table, t, Time)
    BY ONLY <1>0, <2>1, k \in Keys, MapSetEffect
  <2>3. MapHas(t, k, Time) => SlotOf(t, k, Time) = Entry(k, Fresh, Time)
    <3> HAVE MapHas(t, k, Time)
    <3> QED BY ONLY <1>0, <2>1, k \in Keys, MapHas(t, k, Time), SetShows
  <2> QED BY <1>2, <2>2, <2>3 DEF Others, Entry
<1> QED BY <1>1, <1>2

\* A pointer write shows in the entry, if there is one, and nowhere else.
LEMMA ReviseShows ==
  ASSUME NEW t, MapInv(t, Keys, Conns, Time), NEW k \in Keys, NEW v, NEW w, AfterRevise(t, k, v, Time, w)
  PROVE  /\ MapHas(w, k, Time) <=> MapHas(t, k, Time)
         /\ MapHas(t, k, Time) => SlotOf(w, k, Time).val = v
         /\ \A q \in Keys \ {k} : SameFor(q, t, w, Time)
<1>1. CASE MapHas(t, k, Time)
  <2>1. PICK V : V = Conns \cup {v}
    OBVIOUS
  <2>2. Conns \subseteq V /\ v \in V
    BY <2>1
  <2>3. Time \in Nat \ {0}
    BY DEF Time
  <2>4. MapInv(t, Keys, V, Time)
    BY ONLY <2>2, <2>3, MapInv(t, Keys, Conns, Time), MapWidens
  <2>5. PICK e : e = Entry(k, v, t.slots[Least(Where(t, k, Time))].time)
    OBVIOUS
  <2>6. /\ Stores(w, k, Entry(k, v, t.slots[Least(Where(t, k, Time))].time), Time)
        /\ Others(Keys, {k}, t, w, Time)
    BY ONLY <1>1, <2>2, <2>3, <2>4, k \in Keys, AfterRevise(t, k, v, Time, w), MapReviseEffect
  <2>7. MapHas(w, k, Time) /\ SlotOf(w, k, Time) = e /\ e.val = v
    BY <2>5, <2>6 DEF Stores, SlotOf, Entry
  <2> QED BY <1>1, <2>6, <2>7 DEF Others
<1>2. CASE ~ MapHas(t, k, Time)
  <2>1. w = t
    BY <1>2 DEF AfterRevise, MapRevise
  <2> QED BY <1>2, <2>1 DEF SameFor
<1> QED BY <1>1, <1>2

\* map_delete of k shows to nobody else.
LEMMA DeleteShows ==
  ASSUME NEW t, MapInv(t, Keys, Conns, Time), NEW k \in Keys, NEW w, AfterDelete(t, k, Time, w)
  PROVE  /\ ~ MapHas(w, k, Time) /\ MapInv(w, Keys, Conns, Time)
         /\ \A q \in Keys \ {k} : SameFor(q, t, w, Time)
<1>0. Time \in Nat \ {0}
  BY DEF Time
<1>1. /\ Kept(Keys, Conns, t, w, Time)
      /\ ~ MapHas(w, k, Time)
      /\ Others(Keys, {k}, t, w, Time)
  BY ONLY <1>0, MapInv(t, Keys, Conns, Time), k \in Keys, AfterDelete(t, k, Time, w), MapDeleteEffect
<1> QED BY <1>1 DEF Kept, Others

\* What tcp_send and step 3 send is at most a segment each, one after the other.
AtMostOne(a) == a = <<>> \/ \E x : a = <<x>>

LEMMA OneAfterTheOther ==
  ASSUME NEW S, NEW r \in Seq(S), NEW a, AtMostOne(a), NEW b, AtMostOne(b)
  PROVE  r \o a \o b = r \o (a \o b)
<1>1. PICK x : a = <<>> \/ a = <<x>>
  BY DEF AtMostOne
<1>2. PICK y : b = <<>> \/ b = <<y>>
  BY DEF AtMostOne
<1>3. PICK T : T = S \cup {x, y}
  OBVIOUS
<1>4. x \in T /\ y \in T /\ S \subseteq T
  BY <1>3
<1>5. r \in Seq(T)
  BY <1>4
<1>6. a \in Seq(T)
  <2>1. <<>> \in Seq(T)
    BY EmptySeq
  <2>2. Append(<<>>, x) \in Seq(T)
    BY <1>4, <2>1, AppendProperties
  <2>3. Append(<<>>, x) = <<x>>
    OBVIOUS
  <2> QED BY <1>1, <2>1, <2>2, <2>3
<1>7. b \in Seq(T)
  <2>1. <<>> \in Seq(T)
    BY EmptySeq
  <2>2. Append(<<>>, y) \in Seq(T)
    BY <1>4, <2>1, AppendProperties
  <2>3. Append(<<>>, y) = <<y>>
    OBVIOUS
  <2> QED BY <1>2, <2>1, <2>2, <2>3
<1> QED BY ONLY <1>5, <1>6, <1>7, ConcatAssociative

\* Steps 1 to 3 in full, for the key itself and for the others.
LEMMA ProcessShows ==
  ASSUME Inv, NEW k \in Keys, NEW seg \in ClientSegments, NEW t, MapInv(t, Keys, Conns, Time), MapHas(t, k, Time),
         Process(k, t, seg), NEW conn, conn = SlotOf(t, k, Time).val
  PROVE  /\ \A q \in Keys \ {k} : SameFor(q, t, tcp_conn_table', Time) /\ heard'[q] = heard[q]
         /\ crashed' = crashed
         /\ \/ seg.len > 0 /\ k[2] \notin tcp_handler_table /\ heard' = heard
            \/ /\ seg.len = 0 \/ k[2] \in tcp_handler_table
               /\ \E three : /\ Does(conn, seg, heard[k], toClient[k], three, heard'[k], toClient'[k])
                             /\ conn.state = "LAST_ACK" <=> ~ MapHas(tcp_conn_table', k, Time)
                             /\ MapHas(tcp_conn_table', k, Time) =>
                                  SlotOf(tcp_conn_table', k, Time).val = three.conn
<1> DEFINE accept == conn.state = "LISTEN"
           kept   == IF conn.state = "LAST_ACK" THEN MapDelete(t, k, Time) ELSE t
           iss    == (incarnations[k] * (SeqMod \div MaxIncarnations)) % SeqMod
           one    == Advanced(conn, seg, iss)
           before == IF accept THEN 0 ELSE said[k]
           data   == [i \in 1..seg.len |-> seg.from + i - 1]
           flags  == ReplyFlags(conn, seg)
<1>0. /\ incarnations[k] \in Nat /\ said[k] \in Nat /\ seg.len \in Nat
      /\ heard \in [Keys -> Seq(Nat)] /\ toClient \in [Keys -> Seq(ServerSegments)]
  BY SegmentSays DEF Inv, ServerTyped, Segments
<1>1. conn = MapGet(t, k, Time)
  BY DEF MapGet, SlotOf
<1>2. /\ ~ Ignored(conn, seg) /\ ~ OutOfOrder(conn, seg)
      /\ crashed' = crashed
      /\ IF seg.len > 0 /\ k[2] \notin tcp_handler_table
         THEN /\ tcp_conn_table' = MapRevise(kept, k, one, Time)
              /\ heard' = heard
         ELSE \E len \in IF seg.len > 0 THEN Answers ELSE {0} :
                LET two   == tcp_send(one, len)
                    three == Finished(two, flags, before + len)
                IN  /\ tcp_conn_table' = MapRevise(kept, k, three.conn, Time)
                    /\ toClient' = [toClient EXCEPT ![k] =
                                      @ \o Sent(one, len, before) \o three.out]
                    /\ heard' = [heard EXCEPT ![k] = IF accept THEN data ELSE @ \o data]
  BY <1>1 DEF Process
<1>3. iss \in 0..(SeqMod - 1)
  <2>1. SeqMod \in Nat \ {0} /\ (SeqMod \div MaxIncarnations) \in Nat
    BY StreamAssumption, BoundsAssumption
  <2>2. incarnations[k] * (SeqMod \div MaxIncarnations) \in Nat
    BY <1>0, <2>1
  <2> QED BY <2>1, <2>2
<1>4. before \in Nat
  BY <1>0
<1>5. /\ MapInv(kept, Keys, Conns, Time) /\ (conn.state = "LAST_ACK" <=> ~ MapHas(kept, k, Time))
      /\ \A q \in Keys \ {k} : SameFor(q, t, kept, Time)
  <2>1. CASE conn.state = "LAST_ACK"
    <3>1. AfterDelete(t, k, Time, kept)
      BY <2>1 DEF AfterDelete
    <3> HIDE DEF kept
    <3>2. ~ MapHas(kept, k, Time) /\ MapInv(kept, Keys, Conns, Time)
          /\ \A q \in Keys \ {k} : SameFor(q, t, kept, Time)
      BY ONLY <3>1, MapInv(t, Keys, Conns, Time), k \in Keys, DeleteShows
    <3> QED BY <2>1, <3>2
  <2>2. CASE conn.state # "LAST_ACK"
    BY <2>2 DEF SameFor
  <2> QED BY <2>1, <2>2
<1>6. data = Data(seg.len, seg.from)
  BY DEF Data
<1> HIDE DEF kept, iss, one, before, data, flags
<1>7. ASSUME NEW v, tcp_conn_table' = MapRevise(kept, k, v, Time)
      PROVE  /\ \A q \in Keys \ {k} : SameFor(q, t, tcp_conn_table', Time)
             /\ conn.state = "LAST_ACK" <=> ~ MapHas(tcp_conn_table', k, Time)
             /\ MapHas(tcp_conn_table', k, Time) => SlotOf(tcp_conn_table', k, Time).val = v
  <2>1. PICK w : w = tcp_conn_table'
    OBVIOUS
  <2>2. AfterRevise(kept, k, v, Time, w)
    BY <1>7, <2>1 DEF AfterRevise
  <2>3. /\ MapHas(w, k, Time) <=> MapHas(kept, k, Time)
        /\ MapHas(kept, k, Time) => SlotOf(w, k, Time).val = v
        /\ \A q \in Keys \ {k} : SameFor(q, kept, w, Time)
    BY ONLY <1>5, <2>2, k \in Keys, ReviseShows
  <2>4. \A q \in Keys \ {k} : SameFor(q, t, w, Time)
    BY ONLY <1>5, <2>3, SameTwice
  <2> QED BY ONLY <1>5, <2>1, <2>3, <2>4
<1>8. CASE seg.len > 0 /\ k[2] \notin tcp_handler_table
  <2>1. tcp_conn_table' = MapRevise(kept, k, one, Time) /\ heard' = heard
    BY <1>2, <1>8
  <2> QED BY <1>2, <1>7, <1>8, <2>1
<1>9. CASE ~ (seg.len > 0 /\ k[2] \notin tcp_handler_table)
  <2>1. PICK len \in IF seg.len > 0 THEN Answers ELSE {0} :
                LET two   == tcp_send(one, len)
                    three == Finished(two, flags, before + len)
                IN  /\ tcp_conn_table' = MapRevise(kept, k, three.conn, Time)
                    /\ toClient' = [toClient EXCEPT ![k] =
                                      @ \o Sent(one, len, before) \o three.out]
                    /\ heard' = [heard EXCEPT ![k] = IF accept THEN data ELSE @ \o data]
    BY <1>2, <1>9
  <2>2. len \in Nat /\ (seg.len = 0 => len = 0) /\ (seg.len = 0 \/ k[2] \in tcp_handler_table)
    <3>1. CASE seg.len > 0
      <4>1. len \in Answers /\ k[2] \in tcp_handler_table
        BY <1>9, <2>1, <3>1
      <4> QED BY <1>0, <3>1, <4>1, StreamAssumption
    <3>2. CASE ~ (seg.len > 0)
      <4>1. len \in {0} /\ seg.len = 0
        BY <1>0, <2>1, <3>2
      <4> QED BY <4>1
    <3> QED BY <3>1, <3>2
  <2>3. PICK two, three : two = tcp_send(one, len) /\ three = Finished(two, flags, before + len)
    OBVIOUS
  <2>4. /\ tcp_conn_table' = MapRevise(kept, k, three.conn, Time)
        /\ toClient' = [toClient EXCEPT ![k] = @ \o Sent(one, len, before) \o three.out]
        /\ heard' = [heard EXCEPT ![k] = IF accept THEN data ELSE @ \o data]
    BY <2>1, <2>3
  <2>5. PICK a, out : a = Sent(one, len, before) /\ out = a \o three.out
    OBVIOUS
  <2>6. toClient'[k] = toClient[k] \o out
    <3>1. toClient'[k] = toClient[k] \o a \o three.out /\ toClient[k] \in Seq(ServerSegments)
      BY <1>0, <2>4, <2>5
    <3>2. PICK r, b : r = toClient[k] /\ b = three.out
      OBVIOUS
    <3>3. AtMostOne(a)
      BY <2>5 DEF AtMostOne, Sent
    <3>4. AtMostOne(b)
      BY <2>3, <3>2 DEF AtMostOne, Finished
    <3>5. r \o a \o b = r \o (a \o b)
      <4>1. r \in Seq(ServerSegments)
        BY <3>1, <3>2
      <4> QED BY ONLY <3>3, <3>4, <4>1, OneAfterTheOther
    <3> QED BY <2>5, <3>1, <3>2, <3>5
  <2>7. Answer(conn, seg, iss, before, len, three, out)
    BY <2>3, <2>5 DEF Answer, one, flags
  <2>8. heard'[k] = (IF conn.state = "LISTEN" THEN data ELSE heard[k] \o data)
        /\ \A q \in Keys \ {k} : heard'[q] = heard[q]
    BY <1>0, <2>4
  <2>9. Steps(conn, seg, heard[k], toClient[k], three, heard'[k], toClient'[k], iss, before, len, out, data)
    BY <1>2, <1>6, <2>2, <2>6, <2>7, <2>8 DEF Steps
  <2>10. Does(conn, seg, heard[k], toClient[k], three, heard'[k], toClient'[k])
    BY <1>3, <1>4, <2>2, <2>9 DEF Does
  <2> QED BY <1>2, <1>7, <2>2, <2>4, <2>8, <2>10
<1> QED BY <1>8, <1>9

-----------------------------------------------------------------------------
(* The steps of a behaviour without an upset *)

\* A key that nothing shows to stays calm.
LEMMA Unnoticed ==
  ASSUME NEW q \in Keys, CalmAt(q), SameFor(q, tcp_conn_table, tcp_conn_table', Time),
         client'[q] = client[q], toServer'[q] = toServer[q], toClient'[q] = toClient[q],
         heard'[q] = heard[q], tcp_handler_table' = tcp_handler_table, crashed => crashed'
  PROVE  CalmAt(q)'
<1>1. PICK has, conn, has2, conn2 :
        /\ has = MapHas(tcp_conn_table, q, Time) /\ conn = SlotOf(tcp_conn_table, q, Time).val
        /\ has2 = MapHas(tcp_conn_table', q, Time) /\ conn2 = SlotOf(tcp_conn_table', q, Time).val
  OBVIOUS
<1>2. (has2 <=> has) /\ (has => conn2 = conn)
  BY <1>1 DEF SameFor, SlotOf
<1>3. Phase(has, conn, client[q], toServer[q], toClient[q], heard[q]) =>
        Phase(has2, conn2, client[q], toServer[q], toClient[q], heard[q])
  BY ONLY <1>2, PhaseSame
<1>4. PhaseOf(q) => PhaseOf(q)'
  BY <1>1, <1>3 DEF PhaseOf, Time
<1> QED BY <1>4 DEF CalmAt

\* A client moves on.
LEMMA ClientCalm ==
  ASSUME NEW k \in Keys, CalmAt(k), UNCHANGED server,
         PhaseOf(k) => Phase(MapHas(tcp_conn_table, k, Time), SlotOf(tcp_conn_table, k, Time).val,
                             client'[k], toServer'[k], toClient'[k], heard[k])
  PROVE  CalmAt(k)'
<1>1. /\ tcp_handler_table' = tcp_handler_table /\ tcp_conn_table' = tcp_conn_table
      /\ heard' = heard /\ crashed' = crashed
  BY DEF server
<1>2. PhaseOf(k) => PhaseOf(k)'
  BY <1>1 DEF PhaseOf, Time
<1> QED BY <1>1, <1>2 DEF CalmAt

LEMMA SendsCalm ==
  ASSUME Inv, NEW k \in Keys, CalmAt(k), ClientSends(k)
  PROVE  CalmAt(k)'
<1>1. PICK c, q, r, d, p : c = client[k] /\ q = toServer[k] /\ r = toClient[k] /\ d = client'[k] /\ p = toServer'[k]
  OBVIOUS
<1>2. Typed(c, q, r)
  BY <1>1, ClientFacts DEF Typed
<1>3. c \in Clients /\ client \in [Keys -> Clients] /\ toServer \in [Keys -> Seq(ClientSegments)]
  BY <1>1, <1>2 DEF Inv, Typed
<1>4. /\ c.state = "closed" \/ (c.state = "open" /\ c.snd # Total + 2)
      /\ client' = [client EXCEPT ![k].snd = After(@), ![k].state = IF @ = "closed" THEN "syn_sent" ELSE @]
      /\ toServer' = [toServer EXCEPT ![k] = Append(@, ClientSegment(c.snd))]
      /\ UNCHANGED server /\ toClient' = toClient
  BY <1>1 DEF ClientSends, Established, AllSent
<1>5. d.snd = After(c.snd) /\ d.una = c.una /\ d.state = IF c.state = "closed" THEN "syn_sent" ELSE c.state
  BY <1>1, <1>3, <1>4 DEF Clients
<1>6. p = Append(q, ClientSegment(c.snd))
  BY <1>1, <1>3, <1>4
<1>7. ASSUME NEW has, NEW conn, NEW h, Phase(has, conn, c, q, r, h)
      PROVE  Phase(has, conn, d, p, r, h)
  BY ONLY <1>2, <1>4, <1>5, <1>6, <1>7, PhaseSends
<1> QED BY <1>1, <1>4, <1>7, ClientCalm DEF PhaseOf

LEMMA ResendsCalm ==
  ASSUME Inv, NEW k \in Keys, CalmAt(k), ClientResends(k)
  PROVE  CalmAt(k)'
<1>1. PICK c, q, r, p : c = client[k] /\ q = toServer[k] /\ r = toClient[k] /\ p = toServer'[k]
  OBVIOUS
<1>2. Typed(c, q, r) /\ toServer \in [Keys -> Seq(ClientSegments)]
  BY <1>1, ClientFacts DEF Typed, Inv
<1>3. /\ c.una < c.snd /\ q = <<>> /\ r = <<>> /\ c.state \in {"syn_sent", "open"}
      /\ p = <<ClientSegment(c.una)>> /\ UNCHANGED server /\ client' = client /\ toClient' = toClient
  BY <1>1, <1>2 DEF ClientResends
<1>4. ASSUME NEW has, NEW conn, NEW h, Phase(has, conn, c, q, r, h)
      PROVE  Phase(has, conn, c, p, r, h)
  BY ONLY <1>2, <1>3, <1>4, PhaseResends
<1> QED BY <1>1, <1>3, <1>4, ClientCalm DEF PhaseOf

LEMMA TakesCalm ==
  ASSUME Inv, NEW k \in Keys, CalmAt(k), ToClient(k, 1, FALSE)
  PROVE  CalmAt(k)'
<1>1. PICK c, q, r, s : c = client[k] /\ q = toServer[k] /\ r = toClient[k] /\ s = r[1]
  OBVIOUS
<1>2. PICK d, q2, r2 : d = client'[k] /\ q2 = toServer'[k] /\ r2 = toClient'[k]
  OBVIOUS
<1>3. Typed(c, q, r) /\ toServer \in [Keys -> Seq(ClientSegments)] /\ toClient \in [Keys -> Seq(ServerSegments)]
      /\ client \in [Keys -> Clients]
  BY <1>1, ClientFacts DEF Typed, Inv
<1>4. 1 <= Len(r) /\ toClient' = [toClient EXCEPT ![k] = WithoutAt(@, 1)] /\ ClientReceives(k, s)
  BY <1>1 DEF ToClient
<1>5. r2 = WithoutAt(r, 1)
  BY <1>1, <1>2, <1>3, <1>4
<1>6. r # <<>>
  <2>1. Len(<<>>) = 0
    OBVIOUS
  <2> QED BY <1>4, <2>1
<1>7. UNCHANGED server /\ Takes(c, s, q, d, q2)
  <2>1. /\ UNCHANGED server
        /\ IF "UNREACH" \in s.flags THEN client' = client /\ toServer' = toServer
           ELSE \/ /\ c.state = "syn_sent"
                   /\ IF "SYN" \in s.flags /\ AckedBy(s) = 1
                      THEN /\ client' = [client EXCEPT ![k] = Opened(c, s)]
                           /\ toServer' = [toServer EXCEPT ![k] = Append(@, BareAck(1))]
                      ELSE client' = client /\ toServer' = toServer
                \/ /\ c.state \in {"open", "done"}
                   /\ client' = [client EXCEPT ![k] = Heeded(c, s)]
                   /\ IF Space(s) > 0 THEN toServer' = [toServer EXCEPT ![k] = Append(@, BareAck(c.snd))]
                      ELSE toServer' = toServer
                \/ c.state = "aborted"
    BY <1>1, <1>4 DEF ClientReceives
  <2> QED BY <1>1, <1>2, <1>3, <2>1 DEF Takes
<1>8. ASSUME NEW has, NEW conn, NEW h, Phase(has, conn, c, q, r, h)
      PROVE  Phase(has, conn, d, q2, r2, h)
  BY ONLY <1>1, <1>3, <1>5, <1>6, <1>7, <1>8, PhaseTakes
<1> QED BY <1>1, <1>2, <1>7, <1>8, ClientCalm DEF PhaseOf

\* What tcp_in does, in full, with t the table that has the connection if it can.
Served(k, t, seg) ==
  /\ t = tcp_get_connection(k)
  /\ tcp_handler_table' = tcp_handler_table /\ client' = client
  /\ toServer' = [toServer EXCEPT ![k] = WithoutAt(@, 1)]
  /\ IF "RST" \in seg.flags THEN Reset(k, t)
     ELSE \/ NullConnection(k, t)
          \/ MapHas(t, k, Time) /\ Discard(k, t, seg)
          \/ MapHas(t, k, Time) /\ Process(k, t, seg)

\* ToServer(k, 1, FALSE), taken apart.
LEMMA ServerTakes ==
  ASSUME Inv, NEW k \in Keys, ToServer(k, 1, FALSE), NEW t, t = tcp_get_connection(k), NEW seg, seg = toServer[k][1]
  PROVE  /\ Served(k, t, seg) /\ MapInv(t, Keys, Conns, Time) /\ ~ crashed
         /\ toServer[k] \in Seq(ClientSegments) /\ toServer[k] # <<>> /\ seg \in ClientSegments
         /\ toServer'[k] = WithoutAt(toServer[k], 1) /\ \A q \in Keys \ {k} : toServer'[q] = toServer[q]
         /\ Told(k)
<1>1. /\ ~ crashed /\ 1 <= Len(toServer[k])
      /\ toServer' = [toServer EXCEPT ![k] = WithoutAt(@, 1)] /\ tcp_in(k, seg)
  BY DEF ToServer
<1>2. toServer \in [Keys -> Seq(ClientSegments)] /\ ServerTyped /\ ConnsOK
  BY DEF Inv
<1>3. toServer[k] # <<>>
  <2>1. Len(<<>>) = 0
    OBVIOUS
  <2> QED BY <1>1, <2>1
<1>4. toServer[k] \in Seq(ClientSegments) /\ seg \in ClientSegments
  <2>1. toServer[k] \in Seq(ClientSegments)
    BY <1>2
  <2> QED BY <1>3, <2>1, RestOf
<1>5. MapInv(t, Keys, Conns, Time)
  BY <1>2, GetConnection
<1>6. Served(k, t, seg)
  BY <1>1 DEF tcp_in, Served
<1>7. Told(k)
  BY <1>1, <1>4, TcpIn
<1> QED BY <1>1, <1>2, <1>3, <1>4, <1>5, <1>6, <1>7

\* The others do not notice.
LEMMA ServesOthers ==
  ASSUME Inv, NEW k \in Keys, ToServer(k, 1, FALSE), NEW q \in Keys \ {k}
  PROVE  /\ SameFor(q, tcp_conn_table, tcp_conn_table', Time)
         /\ client' = client /\ toServer'[q] = toServer[q] /\ toClient'[q] = toClient[q]
         /\ heard'[q] = heard[q] /\ tcp_handler_table' = tcp_handler_table /\ (crashed => crashed')
<1>1. PICK t, seg : t = tcp_get_connection(k) /\ seg = toServer[k][1]
  OBVIOUS
<1>2. /\ Served(k, t, seg) /\ MapInv(t, Keys, Conns, Time) /\ ~ crashed /\ seg \in ClientSegments
      /\ toServer'[q] = toServer[q] /\ toClient'[q] = toClient[q]
  BY <1>1, ServerTakes DEF Told
<1>3. SameFor(q, tcp_conn_table, t, Time)
  <2>1. ServerTyped
    BY DEF Inv
  <2> QED BY <1>1, <2>1, GetShows
<1>4. SameFor(q, tcp_conn_table, tcp_conn_table', Time) /\ heard'[q] = heard[q]
  <2>1. CASE Reset(k, t)
    <3>1. PICK w : w = tcp_conn_table'
      OBVIOUS
    <3>2. AfterDelete(t, k, Time, w) /\ heard' = heard
      BY <2>1, <3>1 DEF Reset, AfterDelete
    <3>3. SameFor(q, t, w, Time)
      BY ONLY <1>2, <3>2, k \in Keys, q \in Keys \ {k}, DeleteShows
    <3> QED BY <1>3, <3>1, <3>2, <3>3, SameTwice
  <2>2. CASE NullConnection(k, t)
    BY <2>2 DEF NullConnection, SameFor
  <2>3. CASE Discard(k, t, seg)
    <3>1. tcp_conn_table' = t /\ heard' = heard
      BY <2>3 DEF Discard
    <3> QED BY <1>3, <3>1
  <2>4. CASE MapHas(t, k, Time) /\ Process(k, t, seg)
    <3>1. PICK conn : conn = SlotOf(t, k, Time).val
      OBVIOUS
    <3>2. SameFor(q, t, tcp_conn_table', Time) /\ heard'[q] = heard[q]
      BY <1>2, <2>4, <3>1, ProcessShows
    <3> QED BY <1>3, <3>2, SameTwice
  <2> QED BY <1>2, <2>1, <2>2, <2>3, <2>4 DEF Served
<1> QED BY <1>2, <1>4 DEF Served

\* A closed port hears nothing.
LEMMA ServesClosed ==
  ASSUME Inv, NEW k \in Keys, ToServer(k, 1, FALSE), k[2] \notin tcp_handler_table, CalmAt(k)
  PROVE  CalmAt(k)'
<1>1. PICK t, seg : t = tcp_get_connection(k) /\ seg = toServer[k][1]
  OBVIOUS
<1>2. /\ Served(k, t, seg) /\ MapInv(t, Keys, Conns, Time) /\ seg \in ClientSegments
  BY <1>1, ServerTakes
<1>3. heard[k] = <<>> /\ heard[k] \in Seq(Nat)
  BY DEF CalmAt, Inv, ServerTyped
<1>4. heard'[k] = <<>>
  <2>1. CASE Reset(k, t) \/ NullConnection(k, t) \/ Discard(k, t, seg)
    BY <1>3, <2>1 DEF Reset, NullConnection, Discard
  <2>2. CASE MapHas(t, k, Time) /\ Process(k, t, seg)
    <3>1. PICK conn : conn = SlotOf(t, k, Time).val
      OBVIOUS
    <3>2. \/ heard' = heard
          \/ /\ seg.len = 0
             /\ \E three : Does(conn, seg, heard[k], toClient[k], three, heard'[k], toClient'[k])
      BY <1>2, <2>2, <3>1, k[2] \notin tcp_handler_table, ProcessShows
    <3>3. ASSUME seg.len = 0, NEW three, Does(conn, seg, heard[k], toClient[k], three, heard'[k], toClient'[k])
          PROVE  heard'[k] = <<>>
      <4>1. PICK data : data = Data(seg.len, seg.from)
        OBVIOUS
      <4>2. heard'[k] = data \/ heard'[k] = heard[k] \o data
        BY <3>3, <4>1 DEF Does, Steps
      <4>3. data \in Seq(Nat) /\ Len(data) = 0
        <5>1. data \in [1..0 -> Nat]
          BY <3>3, <4>1 DEF Data
        <5> QED BY <5>1
      <4>4. data = <<>>
        BY <4>3, EmptySeq
      <4> QED BY <1>3, <4>2, <4>4
    <3> QED BY <1>3, <3>2, <3>3
  <2> QED BY <1>2, <2>1, <2>2 DEF Served
<1>5. tcp_handler_table' = tcp_handler_table
  BY <1>2 DEF Served
<1>6. InOrder(<<>>)
  BY DEF InOrder
<1> QED BY <1>4, <1>5, <1>6 DEF CalmAt

\* What tcp_in finds when a client's segment comes, on an open port.
LEMMA ServesGiven ==
  ASSUME Inv, NEW k \in Keys, ToServer(k, 1, FALSE), k[2] \in tcp_handler_table, CalmAt(k),
         NEW t, t = tcp_get_connection(k), MapHas(t, k, Time), NEW conn, conn = SlotOf(t, k, Time).val
  PROVE  /\ \E has : /\ has <=> MapHas(tcp_conn_table, k, Time)
                     /\ Given(has, conn, client[k], toServer[k], toClient[k], heard[k])
         /\ MapHas(tcp_conn_table, k, Time) => conn = SlotOf(tcp_conn_table, k, Time).val
<1>1. /\ MapInv(t, Keys, Conns, Time) /\ ~ crashed /\ toServer[k] \in Seq(ClientSegments) /\ toServer[k] # <<>>
  BY ServerTakes
<1>2. ServerTyped /\ heard[k] \in Seq(Nat)
  BY DEF Inv, ServerTyped
<1>3. PICK has, old : has = MapHas(tcp_conn_table, k, Time) /\ old = SlotOf(tcp_conn_table, k, Time).val
  OBVIOUS
<1>4. Phase(has, old, client[k], toServer[k], toClient[k], heard[k]) /\ InOrder(heard[k])
  BY <1>1, <1>3 DEF CalmAt, PhaseOf
<1>5. (has => conn = old) /\ (has \/ conn = Fresh)
  <2>1. /\ MapHas(tcp_conn_table, k, Time) => t = tcp_conn_table
        /\ MapHas(t, k, Time) /\ ~ MapHas(tcp_conn_table, k, Time) => SlotOf(t, k, Time).val = Fresh
    BY <1>2, GetShows
  <2> QED BY <1>3, <2>1
<1>6. conn \in Conns
  <2>1. MapTyped(t, Keys, Conns, Time) /\ Time \in Nat \ {0}
    BY <1>1 DEF MapInv, Time
  <2>2. PICK s : s = SlotOf(t, k, Time)
    OBVIOUS
  <2>3. s.val \in Conns
    BY ONLY <2>1, <2>2, MapHas(t, k, Time), SlotFilled
  <2> QED BY <2>2, <2>3
<1>7. Phase(has, conn, client[k], toServer[k], toClient[k], heard[k])
  BY ONLY <1>4, <1>5, PhaseSame
<1>8. Typed(client[k], toServer[k], toClient[k])
  BY ClientFacts DEF Typed
<1>9. Given(has, conn, client[k], toServer[k], toClient[k], heard[k])
  BY <1>1, <1>2, <1>4, <1>5, <1>6, <1>7, <1>8 DEF Given
<1> QED BY <1>3, <1>5, <1>9

\* tcp_in keeps an open port calm.
LEMMA ServesOpen ==
  ASSUME Inv, NEW k \in Keys, ToServer(k, 1, FALSE), k[2] \in tcp_handler_table, CalmAt(k)
  PROVE  CalmAt(k)'
<1>1. PICK t, seg, conn : t = tcp_get_connection(k) /\ seg = toServer[k][1] /\ conn = SlotOf(t, k, Time).val
  OBVIOUS
<1>2. PICK c, q, r, h : c = client[k] /\ q = toServer[k] /\ r = toClient[k] /\ h = heard[k]
  OBVIOUS
<1>3. PICK q2, r2, h2 : q2 = toServer'[k] /\ r2 = toClient'[k] /\ h2 = heard'[k]
  OBVIOUS
<1>4. /\ Served(k, t, seg) /\ MapInv(t, Keys, Conns, Time) /\ ~ crashed /\ q # <<>> /\ q \in Seq(ClientSegments)
      /\ seg \in ClientSegments /\ q2 = WithoutAt(q, 1) /\ seg = q[1]
  BY <1>1, <1>2, <1>3, ServerTakes
<1>5. client' = client /\ tcp_handler_table' = tcp_handler_table
  BY <1>4 DEF Served
<1>6. InOrder(h) /\ PhaseOf(k)
  BY <1>2, <1>4 DEF CalmAt
<1>7. "RST" \notin seg.flags
  <2>1. PICK has, old : Phase(has, old, c, q, r, h)
    BY <1>2, <1>6 DEF PhaseOf
  <2> QED BY <1>4, <2>1, NoReset
<1>8. /\ heard \in [Keys -> Seq(Nat)] /\ toClient \in [Keys -> Seq(ServerSegments)]
  BY DEF Inv, ServerTyped
<1>9. CASE NullConnection(k, t)
  <2>1. crashed' /\ heard' = heard
    BY <1>9 DEF NullConnection
  <2> QED BY <1>2, <1>5, <1>6, <2>1 DEF CalmAt
<1>10. ASSUME MapHas(t, k, Time), NEW has2, NEW conn2, has2 <=> MapHas(tcp_conn_table', k, Time),
              has2 => conn2 = SlotOf(tcp_conn_table', k, Time).val,
              InOrder(h2), Phase(has2, conn2, c, q2, r2, h2)
       PROVE  CalmAt(k)'
  <2>1. PICK has3, conn3 : /\ has3 = MapHas(tcp_conn_table', k, Time)
                           /\ conn3 = SlotOf(tcp_conn_table', k, Time).val
    OBVIOUS
  <2>2. (has3 <=> has2) /\ (has2 => conn3 = conn2)
    BY <1>10, <2>1
  <2>3. Phase(has3, conn3, c, q2, r2, h2)
    BY ONLY <1>10, <2>2, PhaseSame
  <2>4. PhaseOf(k)'
    BY <1>2, <1>3, <1>5, <2>1, <2>3 DEF PhaseOf, Time
  <2> QED BY <1>3, <1>5, <1>10, <2>4 DEF CalmAt
<1>11. ASSUME MapHas(t, k, Time)
       PROVE  \E has : Given(has, conn, c, q, r, h)
  BY <1>1, <1>2, <1>11, ServesGiven
<1>12. CASE MapHas(t, k, Time) /\ Discard(k, t, seg)
  <2>1. PICK has : Given(has, conn, c, q, r, h)
    BY <1>11, <1>12
  <2>2. conn = MapGet(t, k, Time)
    BY <1>1 DEF MapGet, SlotOf
  <2>3. /\ Ignored(conn, seg) \/ OutOfOrder(conn, seg)
        /\ tcp_conn_table' = t /\ heard' = heard
        /\ Ignored(conn, seg) => toClient' = toClient
    BY <1>12, <2>2 DEF Discard
  <2>4. (Ignored(conn, q[1]) /\ r2 = r) \/ OutOfOrder(conn, q[1])
    BY <1>2, <1>3, <1>4, <2>3
  <2>5. PICK has2 : has2 = TRUE
    OBVIOUS
  <2>6. has2
    BY <2>5
  <2>7. Phase(has2, conn, c, q2, r2, h)
    BY ONLY <1>4, <2>1, <2>4, <2>6, PhaseDiscard
  <2> QED BY <1>1, <1>2, <1>3, <1>6, <1>10, <1>12, <2>3, <2>6, <2>7
<1>13. CASE MapHas(t, k, Time) /\ Process(k, t, seg)
  <2>1. PICK has : Given(has, conn, c, q, r, h)
    BY <1>11, <1>13
  <2>2. PICK three :
          /\ Does(conn, seg, h, r, three, h2, r2)
          /\ conn.state = "LAST_ACK" <=> ~ MapHas(tcp_conn_table', k, Time)
          /\ MapHas(tcp_conn_table', k, Time) => SlotOf(tcp_conn_table', k, Time).val = three.conn
    BY <1>1, <1>2, <1>3, <1>4, <1>13, k[2] \in tcp_handler_table, ProcessShows
  <2>3. PICK has2 : has2 = MapHas(tcp_conn_table', k, Time)
    OBVIOUS
  <2>4. Does(conn, q[1], h, r, three, h2, r2) /\ (conn.state = "LAST_ACK" <=> ~ has2)
    BY <1>4, <2>2, <2>3
  <2>5. InOrder(h2) /\ Phase(has2, three.conn, c, q2, r2, h2)
    BY ONLY <1>4, <2>1, <2>4, PhaseProcess
  <2>6. PICK conn2 : conn2 = three.conn
    OBVIOUS
  <2> QED BY <1>10, <1>13, <2>2, <2>3, <2>5, <2>6
<1> QED BY <1>4, <1>7, <1>9, <1>12, <1>13 DEF Served

\* Without an upset, clients send and the network delivers, each queue in its order.
LEMMA CalmSteps ==
  ASSUME Inv, Next, upsets' = 0
  PROVE  /\ upsets = 0
         /\ \E k \in Keys : ClientSends(k) \/ ClientResends(k) \/ ToServer(k, 1, FALSE) \/ ToClient(k, 1, FALSE)
<1>1. upsets \in Nat
  BY BoundsAssumption DEF Inv
<1>2. ~ Upset(1)
  BY <1>1 DEF Upset
<1>3. PICK k \in Keys : ClientSends(k) \/ ClientResends(k) \/ Deliver(k)
  BY <1>2 DEF Next, Misdeliver, Lose, Closing
<1>4. CASE Deliver(k)
  BY <1>4 DEF Deliver
<1>5. CASE ClientSends(k)
  BY <1>5 DEF ClientSends
<1>6. CASE ClientResends(k)
  BY <1>6 DEF ClientResends
<1> QED BY <1>3, <1>4, <1>5, <1>6

\* A client's step shows to no other.
LEMMA ClientsOthers ==
  ASSUME Inv, NEW k \in Keys, ClientSends(k) \/ ClientResends(k) \/ ToClient(k, 1, FALSE), NEW q \in Keys \ {k}
  PROVE  UNCHANGED server /\ client'[q] = client[q] /\ toServer'[q] = toServer[q] /\ toClient'[q] = toClient[q]
<1>1. /\ client \in [Keys -> Clients] /\ toServer \in [Keys -> Seq(ClientSegments)]
      /\ toClient \in [Keys -> Seq(ServerSegments)]
  BY DEF Inv
<1>2. CASE ClientSends(k)
  BY <1>1, <1>2 DEF ClientSends
<1>3. CASE ClientResends(k)
  BY <1>1, <1>3 DEF ClientResends
<1>4. CASE ToClient(k, 1, FALSE)
  <2>1. PICK seg : seg = toClient[k][1]
    OBVIOUS
  <2>2. toClient' = [toClient EXCEPT ![k] = WithoutAt(@, 1)] /\ ClientReceives(k, seg)
    BY <1>4, <2>1 DEF ToClient
  <2> QED BY <1>1, <2>2 DEF ClientReceives
<1> QED BY <1>2, <1>3, <1>4

\* Calm is kept by every step: with upsets' = 0 only by those of CalmSteps.
LEMMA NextCalm ==
  ASSUME Inv, Calm, [Next]_vars
  PROVE  Calm'
<1> SUFFICES ASSUME upsets' = 0, NEW q \in Keys PROVE CalmAt(q)'
  BY DEF Calm, Keys
<1>1. CASE UNCHANGED vars
  <2>1. /\ tcp_handler_table' = tcp_handler_table /\ tcp_conn_table' = tcp_conn_table /\ toServer' = toServer
        /\ toClient' = toClient /\ client' = client /\ heard' = heard /\ crashed' = crashed /\ upsets' = upsets
    BY <1>1 DEF vars, server
  <2>2. CalmAt(q)
    BY <2>1 DEF Calm
  <2>3. SameFor(q, tcp_conn_table, tcp_conn_table', Time)
    BY <2>1 DEF SameFor
  <2> QED BY <2>1, <2>2, <2>3, Unnoticed
<1>2. CASE Next
  <2>1. upsets = 0
    BY <1>2, CalmSteps
  <2>2. PICK k \in Keys : ClientSends(k) \/ ClientResends(k) \/ ToServer(k, 1, FALSE) \/ ToClient(k, 1, FALSE)
    BY <1>2, CalmSteps
  <2>3. CalmAt(k) /\ CalmAt(q)
    BY <2>1 DEF Calm
  <2>4. CASE ClientSends(k) \/ ClientResends(k) \/ ToClient(k, 1, FALSE)
    <3>1. CASE q = k
      BY <2>3, <2>4, <3>1, SendsCalm, ResendsCalm, TakesCalm
    <3>2. CASE q # k
      <4>1. UNCHANGED server /\ client'[q] = client[q] /\ toServer'[q] = toServer[q] /\ toClient'[q] = toClient[q]
        BY <2>4, <3>2, ClientsOthers
      <4>2. tcp_handler_table' = tcp_handler_table /\ tcp_conn_table' = tcp_conn_table
            /\ heard' = heard /\ crashed' = crashed
        BY <4>1 DEF server
      <4>3. SameFor(q, tcp_conn_table, tcp_conn_table', Time)
        BY <4>2 DEF SameFor
      <4> QED BY <2>3, <4>1, <4>2, <4>3, Unnoticed
    <3> QED BY <3>1, <3>2
  <2>5. CASE ToServer(k, 1, FALSE)
    <3>1. CASE q = k
      BY <2>3, <2>5, <3>1, ServesOpen, ServesClosed
    <3>2. CASE q # k
      <4>1. q \in Keys \ {k}
        BY <3>2
      <4> QED BY <2>3, <2>5, <4>1, ServesOthers, Unnoticed
    <3> QED BY <3>1, <3>2
  <2> QED BY <2>2, <2>4, <2>5
<1> QED BY <1>1, <1>2

LEMMA InitCalm == Init => Calm
<1> SUFFICES ASSUME Init, NEW k \in Keys PROVE CalmAt(k)
  BY DEF Calm
<1>1. /\ client[k] = [state |-> "closed", snd |-> 0, una |-> 0, rcv |-> 0, read |-> <<>>]
      /\ toServer[k] = <<>> /\ toClient[k] = <<>> /\ heard[k] = <<>>
      /\ tcp_conn_table = MapInit(ConnSlots, 0)
  BY DEF Init
<1>2. ~ MapHas(tcp_conn_table, k, 1)
  <2>1. ConnSlots \in Nat /\ 0 \in Nat
    BY BoundsAssumption
  <2> QED BY <1>1, <2>1, NewMap
<1>3. Idle(MapHas(tcp_conn_table, k, Time), client[k], toServer[k], toClient[k])
  BY <1>1, <1>2 DEF Idle, Time
<1>4. PhaseOf(k) /\ InOrder(heard[k])
  BY <1>1, <1>3 DEF PhaseOf, Phase, InOrder
<1> QED BY <1>1, <1>4 DEF CalmAt

\* The handler gets the client's bytes in order, each once, as long as nothing
\* is upset.
THEOREM HeardRight == Spec => []HeardInOrder
<1>1. Calm => HeardInOrder
  BY DEF Calm, CalmAt, HeardInOrder
<1>2. Inv /\ Calm /\ [Next]_vars => Calm'
  BY NextCalm
<1> QED BY <1>1, <1>2, InitCalm, Invariance, PTL DEF Spec

\* A step that consumes is one of tcp_in, in the conversation.
LEMMA StepAcks ==
  ASSUME Inv, Calm, Next, upsets' = 0, NEW k \in Keys, Consumed(k)
  PROVE  Acks(k)
<1>1. PICK j \in Keys : ClientSends(j) \/ ClientResends(j) \/ ToServer(j, 1, FALSE) \/ ToClient(j, 1, FALSE)
  BY CalmSteps
<1>2. CalmAt(k)
  BY CalmSteps DEF Calm
<1>3. PICK conn : conn = SlotOf(tcp_conn_table, k, Time).val
  OBVIOUS
<1>4. /\ MapHas(tcp_conn_table, k, Time) /\ MapHas(tcp_conn_table', k, Time) /\ conn.state = "ESTABLISHED"
      /\ SlotOf(tcp_conn_table', k, Time).val.ack # conn.ack /\ k[2] \in tcp_handler_table
  BY <1>3 DEF Consumed, Connected, Conn, MapGet, SlotOf, Time
<1>5. ~ SameFor(k, tcp_conn_table, tcp_conn_table', Time)
  BY <1>3, <1>4 DEF SameFor, SlotOf
<1>6. j = k /\ ToServer(k, 1, FALSE)
  <2>1. CASE ClientSends(j) \/ ClientResends(j) \/ ToClient(j, 1, FALSE)
    <3>1. UNCHANGED server
      BY <2>1 DEF ClientSends, ClientResends, ToClient, ClientReceives
    <3>2. tcp_conn_table' = tcp_conn_table
      BY <3>1 DEF server
    <3> QED BY <1>5, <3>2 DEF SameFor
  <2>2. CASE ToServer(j, 1, FALSE)
    <3>1. j # k => k \in Keys \ {j}
      OBVIOUS
    <3> QED BY <1>5, <2>2, <3>1, ServesOthers
  <2> QED BY <1>1, <2>1, <2>2
<1>7. PICK t, seg : t = tcp_get_connection(k) /\ seg = toServer[k][1]
  OBVIOUS
<1>8. Served(k, t, seg) /\ MapInv(t, Keys, Conns, Time) /\ seg \in ClientSegments
      /\ toServer'[k] = WithoutAt(toServer[k], 1)
  BY <1>6, <1>7, ServerTakes
<1>9. t = tcp_conn_table
  <2>1. ServerTyped
    BY DEF Inv
  <2> QED BY <1>4, <1>7, <2>1, GetShows
<1>10. MapHas(t, k, Time) /\ conn = SlotOf(t, k, Time).val
  BY <1>3, <1>4, <1>9
<1>11. PICK has : has /\ Given(has, conn, client[k], toServer[k], toClient[k], heard[k])
  <2>1. \E has : /\ has <=> MapHas(tcp_conn_table, k, Time)
                 /\ Given(has, conn, client[k], toServer[k], toClient[k], heard[k])
    BY <1>2, <1>4, <1>6, <1>7, <1>10, ServesGiven
  <2> QED BY <1>4, <2>1
<1>12. Process(k, t, seg)
  <2>1. ~ NullConnection(k, t)
    BY <1>10 DEF NullConnection
  <2>2. ~ Discard(k, t, seg)
    BY <1>5, <1>9 DEF Discard, SameFor
  <2>3. ~ Reset(k, t)
    <3> SUFFICES ASSUME Reset(k, t) PROVE FALSE
      OBVIOUS
    <3>1. PICK w : w = tcp_conn_table'
      OBVIOUS
    <3>2. AfterDelete(t, k, Time, w)
      BY <3>1 DEF Reset, AfterDelete
    <3>3. ~ MapHas(w, k, Time)
      BY ONLY <1>8, <3>2, k \in Keys, DeleteShows
    <3> QED BY <1>4, <3>1, <3>3
  <2> QED BY <1>8, <2>1, <2>2, <2>3 DEF Served
<1>13. PICK three :
         /\ Does(conn, seg, heard[k], toClient[k], three, heard'[k], toClient'[k])
         /\ SlotOf(tcp_conn_table', k, Time).val = three.conn
  BY <1>4, <1>8, <1>10, <1>12, ProcessShows
<1>14. Talking(has, conn, client[k], toServer[k], heard[k])
  <2>1. Phase(has, conn, client[k], toServer[k], toClient[k], heard[k])
    BY <1>11 DEF Given
  <2> QED BY <1>4, <1>11, <2>1 DEF Phase, Idle, Asking, Asked, Meeting, Parting
<1>15. PICK x : toClient'[k] = toClient[k] \o <<x>> /\ x.ack = three.conn.ack
  <2>1. PICK c, q, r, h, h2, r2, q2 :
          /\ c = client[k] /\ q = toServer[k] /\ r = toClient[k] /\ h = heard[k]
          /\ h2 = heard'[k] /\ r2 = toClient'[k] /\ q2 = toServer'[k]
    OBVIOUS
  <2>2. /\ Given(has, conn, c, q, r, h) /\ Talking(has, conn, c, q, h)
        /\ Does(conn, q[1], h, r, three, h2, r2) /\ q2 = WithoutAt(q, 1)
    BY <1>7, <1>8, <1>11, <1>13, <1>14, <2>1
  <2>3. three.conn.ack # conn.ack => \E x : r2 = r \o <<x>> /\ x.ack = three.conn.ack
    <3>1. Replies(conn, three.conn, r, r2)
      BY ONLY <2>2, TalkingDoes
    <3> QED BY ONLY <3>1 DEF Replies
  <2> QED BY <1>4, <1>13, <2>1, <2>3
<1>16. toClient[k] \in Seq(ServerSegments)
  BY DEF Inv
<1>17. PICK n \in Nat : n = Len(toClient[k])
  BY <1>16, LenProperties
<1>18. Len(toClient'[k]) = n + 1 /\ toClient'[k][n + 1] = x
  BY <1>15, <1>16, <1>17
<1>19. x.ack = Conn(k)'.ack
  BY <1>13, <1>15 DEF Conn, MapGet, SlotOf, Time
<1> QED BY <1>17, <1>18, <1>19 DEF Acks

\* tcp.c:283-284: whatever is consumed is acknowledged at once, as long as
\* nothing is upset.
THEOREM AckedAtOnce == Spec => EverySegmentAckedUnlessUpset
<1>1. Inv /\ Calm /\ [Next]_vars => [upsets' = 0 => \A k \in Keys : Consumed(k) => Acks(k)]_vars
  BY StepAcks
<1>2. Inv /\ Calm /\ [Next]_vars => Calm'
  BY NextCalm
<1> QED BY <1>1, <1>2, InitCalm, Invariance, PTL DEF Spec, EverySegmentAckedUnlessUpset
=============================================================================
