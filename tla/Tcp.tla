-------------------------------- MODULE Tcp --------------------------------
(***************************************************************************)
(* The TCP server of the stack (src/tcp.c): tcp_in, tcp_send, tcp_close,   *)
(* its connection table and the handler the application registered.        *)
(*                                                                         *)
(* The clients and the network are the environment.  A client sends its    *)
(* SYN, Total bytes in segments of SegLen and its FIN, sends again what    *)
(* was not acknowledged once the line is quiet, acknowledges what it gets  *)
(* and may abort.  Each direction of a connection is a queue; the network  *)
(* may lose, repeat and reorder.  Every such event, an abort and the       *)
(* closing of a port counts as an upset, of which a behaviour has at most  *)
(* MaxUpsets, so that what holds of a well-behaved run can be told from    *)
(* what holds of every run.                                                *)
(*                                                                         *)
(* Sequence numbers are uint32_t: SeqMod values, and a client starts at    *)
(* ClientIsn, near the end, so that they wrap.  The initial number the     *)
(* server draws is one no earlier incarnation of the connection used.      *)
(* Bytes carry their position: of the client's stream, or of what the      *)
(* application answered in this incarnation.  The server never reads the   *)
(* ack field of a segment, so a client's segments have none.               *)
(***************************************************************************)
EXTENDS TimedMap, Sequences

CONSTANTS Hosts, Ports,
          Open, Closable,    \* ports opened before polling starts; those tcp_close may get
          ConnSlots,         \* TCP_MAX_CONN_NUM
          Total, SegLen,     \* bytes a client sends, in segments of this length
          Answers,           \* lengths a handler may pass to tcp_send; 0: it does not call it
          SeqMod, ClientIsn,
          MaxIncarnations, MaxUpsets, MaxBacklog

ASSUME PortsAssumption == Open \subseteq Ports /\ Closable \subseteq Ports
ASSUME StreamAssumption ==
  /\ Total \in Nat /\ SegLen \in Nat \ {0} /\ Total % SegLen = 0
  /\ SeqMod \in Nat /\ SeqMod > Total + 2 /\ ClientIsn \in 0..(SeqMod - 1)
  /\ Answers \subseteq Nat
ASSUME BoundsAssumption ==
  /\ ConnSlots \in Nat \ {0} /\ MaxIncarnations \in Nat \ {0}
  /\ MaxUpsets \in Nat /\ MaxBacklog \in Nat

VARIABLES
  tcp_handler_table,  \* the open ports
  tcp_conn_table,     \* <<remote host, local port>> -> connection
  toServer, toClient, \* segments on their way
  client,
  incarnations,       \* ghost: how often the connection was accepted
  heard,              \* ghost: byte positions given to the handler, this incarnation
  said,               \* ghost: bytes the handler sent, this incarnation
  crashed,            \* the process died
  upsets

server == <<tcp_handler_table, tcp_conn_table, incarnations, heard, said, crashed>>
vars == <<server, toServer, toClient, client, upsets>>

Keys == Hosts \X Ports
Time == 1             \* both tables have no timeout: any second will do

Fresh == [state |-> "LISTEN", not_send_empty_ack |-> FALSE, seq |-> 0, ack |-> 0]
Flags == SUBSET {"SYN", "ACK", "FIN", "RST"}
Add(seq, n) == (seq + n) % SeqMod

\* tcp_open of the ports in Open has put them into the handler table.
Init ==
  /\ tcp_handler_table = Open
  /\ tcp_conn_table = MapInit(ConnSlots, 0)
  /\ toServer = [k \in Keys |-> <<>>]
  /\ toClient = [k \in Keys |-> <<>>]
  /\ client = [k \in Keys |-> [state |-> "closed", snd |-> 0, una |-> 0, rcv |-> 0, read |-> <<>>]]
  /\ incarnations = [k \in Keys |-> 0]
  /\ heard = [k \in Keys |-> <<>>]
  /\ said = [k \in Keys |-> 0]
  /\ crashed = FALSE
  /\ upsets = 0

-----------------------------------------------------------------------------

bytes_in_flight(len, flags) ==
  len + Cardinality(flags \cap {"SYN", "FIN"})

\* tcp_out: a segment numbered from the connection; "from" is the position of
\* its bytes in the application's answer.
tcp_out(conn, flags, len, from) ==
  [flags |-> flags, seq |-> conn.seq, ack |-> conn.ack, len |-> len, from |-> from]

\* icmp_unreachable(ICMP_CODE_PORT_UNREACH): clients make nothing of it.
PortUnreachable == [flags |-> {"UNREACH"}, seq |-> 0, ack |-> 0, len |-> 0, from |-> 0]

\* Step 1 of tcp_in returns at once: the segment is not for this state.
Ignored(conn, seg) ==
  \/ conn.state = "LISTEN" /\ "SYN" \notin seg.flags
  \/ conn.state \in {"SYN_RECEIVED", "LAST_ACK"} /\ "ACK" \notin seg.flags

\* Mutant: data out of order is taken.
unordered(conn, seg) == FALSE
OutOfOrder(conn, seg) == conn.state = "ESTABLISHED" /\ seg.seq # conn.ack

\* Mutant: data takes no sequence numbers.
Advanced_uncounted(conn, seg, iss) ==
  CASE conn.state = "LISTEN" ->
         [conn EXCEPT !.state = "SYN_RECEIVED", !.seq = iss, !.ack = Add(seg.seq, 1)]
    [] conn.state = "SYN_RECEIVED" -> [conn EXCEPT !.state = "ESTABLISHED"]
    [] conn.state = "ESTABLISHED" ->
         [conn EXCEPT !.ack = Add(@, bytes_in_flight(0, seg.flags)),
                      !.state = IF "FIN" \in seg.flags THEN "LAST_ACK" ELSE @]
    [] OTHER -> conn

\* Step 1 otherwise: the new state of the connection, and the flags to answer.
Advanced(conn, seg, iss) ==
  CASE conn.state = "LISTEN" ->
         [conn EXCEPT !.state = "SYN_RECEIVED", !.seq = iss, !.ack = Add(seg.seq, 1)]
    [] conn.state = "SYN_RECEIVED" -> [conn EXCEPT !.state = "ESTABLISHED"]
    [] conn.state = "ESTABLISHED" ->
         [conn EXCEPT !.ack = Add(@, bytes_in_flight(seg.len, seg.flags)),
                      !.state = IF "FIN" \in seg.flags THEN "LAST_ACK" ELSE @]
    [] OTHER -> conn

\* Mutant: the FIN is acknowledged but not answered with a FIN.
ReplyFlags_no_fin(conn, seg) ==
  CASE conn.state = "LISTEN" -> {"SYN", "ACK"}
    [] conn.state = "ESTABLISHED" /\ ("FIN" \in seg.flags \/ seg.len > 0) -> {"ACK"}
    [] OTHER -> {}

ReplyFlags(conn, seg) ==
  CASE conn.state = "LISTEN" -> {"SYN", "ACK"}
    [] conn.state = "ESTABLISHED" /\ "FIN" \in seg.flags -> {"ACK", "FIN"}
    [] conn.state = "ESTABLISHED" /\ "FIN" \notin seg.flags /\ seg.len > 0 -> {"ACK"}
    [] OTHER -> {}

\* tcp_send of len bytes, from the handler: one segment with an ACK.
tcp_send(conn, len) ==
  IF len = 0 THEN conn
  ELSE [conn EXCEPT !.seq = Add(@, len), !.not_send_empty_ack = TRUE]
Sent(conn, len, from) ==
  IF len = 0 THEN <<>> ELSE <<tcp_out(conn, {"ACK"}, len, from)>>

\* Step 3 of tcp_in, two mutants first: the mark of an ACK already sent outlives
\* the segment it stood for; the SYN and the FIN take no sequence number.
Finished_mark_kept(conn, flags, from) ==
  IF flags = {} \/ (flags = {"ACK"} /\ conn.not_send_empty_ack) THEN [conn |-> conn, out |-> <<>>]
  ELSE [conn |-> [conn EXCEPT !.seq = Add(@, bytes_in_flight(0, flags))],
        out |-> <<tcp_out(conn, flags, 0, from)>>]
Finished_same_seq(conn, flags, from) ==
  IF flags = {} THEN [conn |-> conn, out |-> <<>>]
  ELSE IF flags = {"ACK"} /\ conn.not_send_empty_ack
  THEN [conn |-> [conn EXCEPT !.not_send_empty_ack = FALSE], out |-> <<>>]
  ELSE [conn |-> conn, out |-> <<tcp_out(conn, flags, 0, from)>>]

\* Step 3: a bare ACK is left out when tcp_send's segment carried it.
Finished(conn, flags, from) ==
  IF flags = {} THEN [conn |-> conn, out |-> <<>>]
  ELSE IF flags = {"ACK"} /\ conn.not_send_empty_ack
  THEN [conn |-> [conn EXCEPT !.not_send_empty_ack = FALSE], out |-> <<>>]
  ELSE [conn |-> [conn EXCEPT !.seq = Add(@, bytes_in_flight(0, flags))],
        out |-> <<tcp_out(conn, flags, 0, from)>>]

\* tcp_get_connection with create_if_missing.
tcp_get_connection(k) ==
  IF MapHas(tcp_conn_table, k, Time) THEN tcp_conn_table
  ELSE MapSet(tcp_conn_table, k, Fresh, Time)

-----------------------------------------------------------------------------
\* What tcp_in does to a segment, by case; "table" is the connection table with
\* the connection in it.

\* A full table gives a NULL connection, which tcp_in dereferences.
NullConnection(k, table) ==
  /\ ~ MapHas(table, k, Time)
  /\ crashed' = TRUE
  /\ UNCHANGED <<tcp_conn_table, toClient, incarnations, heard, said>>

\* A RST closes the connection, whatever its sequence number.
Reset(k, table) ==
  /\ tcp_conn_table' = MapDelete(table, k, Time)
  /\ UNCHANGED <<toClient, incarnations, heard, said, crashed>>

\* An early return; out of order, it repeats the last ACK.
Discard(k, table, seg) ==
  LET conn == MapGet(table, k, Time) IN
  /\ Ignored(conn, seg) \/ OutOfOrder(conn, seg)
  /\ tcp_conn_table' = table
  /\ toClient' = IF Ignored(conn, seg) THEN toClient
                 ELSE [toClient EXCEPT ![k] = Append(@, tcp_out(conn, {"ACK"}, 0, said[k]))]
  /\ UNCHANGED <<incarnations, heard, said, crashed>>

\* Steps 1, 2 and 3 in full.  In LAST_ACK the entry is deleted first; what the
\* handler and step 3 write into the connection is then lost with it.
Process(k, table, seg) ==
  LET conn   == MapGet(table, k, Time)
      accept == conn.state = "LISTEN"
      kept   == IF conn.state = "LAST_ACK" THEN MapDelete(table, k, Time) ELSE table
      iss    == (incarnations[k] * (SeqMod \div MaxIncarnations)) % SeqMod
      one    == Advanced(conn, seg, iss)
      before == IF accept THEN 0 ELSE said[k]
      data   == [i \in 1..seg.len |-> seg.from + i - 1]
  IN
  /\ ~ Ignored(conn, seg) /\ ~ OutOfOrder(conn, seg)
  /\ accept => incarnations[k] < MaxIncarnations
  /\ incarnations' = IF accept THEN [incarnations EXCEPT ![k] = @ + 1] ELSE incarnations
  /\ UNCHANGED crashed
  /\ IF seg.len > 0 /\ k[2] \notin tcp_handler_table
     THEN /\ tcp_conn_table' = MapRevise(kept, k, one, Time)
          /\ toClient' = [toClient EXCEPT ![k] = Append(@, PortUnreachable)]
          /\ UNCHANGED <<heard, said>>
     ELSE \E len \in IF seg.len > 0 THEN Answers ELSE {0} :
            LET two   == tcp_send(one, len)
                three == Finished(two, ReplyFlags(conn, seg), before + len)
            IN  /\ tcp_conn_table' = MapRevise(kept, k, three.conn, Time)
                /\ toClient' = [toClient EXCEPT ![k] =
                                  @ \o Sent(one, len, before) \o three.out]
                /\ heard' = [heard EXCEPT ![k] = IF accept THEN data ELSE @ \o data]
                /\ said' = [said EXCEPT ![k] = before + len]

tcp_in(k, seg) ==
  LET table == tcp_get_connection(k) IN
  /\ UNCHANGED <<tcp_handler_table, client>>
  /\ IF "RST" \in seg.flags THEN Reset(k, table)
     ELSE \/ NullConnection(k, table)
          \/ MapHas(table, k, Time) /\ Discard(k, table, seg)
          \/ MapHas(table, k, Time) /\ Process(k, table, seg)

\* tcp_close: forget the connections of the port, then its handler.
tcp_close(port) ==
  /\ tcp_conn_table' = MapSweep(tcp_conn_table, Hosts \X {port}, Time)
  /\ tcp_handler_table' = tcp_handler_table \ {port}
  /\ UNCHANGED <<incarnations, heard, said, crashed, toServer, toClient, client>>

-----------------------------------------------------------------------------
\* The clients (external).  A client counts its own numbers from its SYN: the
\* SYN is 0, the bytes are 1..Total, the FIN is Total + 1.

ClientSegment(x) ==
  [flags |-> IF x = 0 THEN {"SYN"} ELSE IF x <= Total THEN {"ACK"} ELSE {"ACK", "FIN"},
   seq   |-> Add(ClientIsn, x),
   len   |-> IF x \in 1..Total THEN SegLen ELSE 0,
   from  |-> IF x \in 1..Total THEN x ELSE 0]
After(x) == x + bytes_in_flight(ClientSegment(x).len, ClientSegment(x).flags)
BareAck(x) == [flags |-> {"ACK"}, seq |-> Add(ClientIsn, x), len |-> 0, from |-> 0]
Abort(x) == [flags |-> {"RST"}, seq |-> Add(ClientIsn, x), len |-> 0, from |-> 0]

Established(c) == c.state = "open"
AllSent(c) == c.snd = Total + 2

\* The SYN of a closed client, the next segment of one that has the line open.
ClientSends(k) ==
  LET c == client[k] IN
  /\ c.state = "closed" \/ (Established(c) /\ ~ AllSent(c))
  /\ Len(toServer[k]) < MaxBacklog
  /\ client' = [client EXCEPT ![k].snd = After(@),
                              ![k].state = IF @ = "closed" THEN "syn_sent" ELSE @]
  /\ toServer' = [toServer EXCEPT ![k] = Append(@, ClientSegment(c.snd))]
  /\ UNCHANGED <<server, toClient, upsets>>

\* Its retransmission timer: the line is quiet and something is not acknowledged.
ClientResends(k) ==
  LET c == client[k] IN
  /\ c.state \in {"syn_sent", "open"} /\ c.una < c.snd
  /\ toServer[k] = <<>> /\ toClient[k] = <<>>
  /\ toServer' = [toServer EXCEPT ![k] = <<ClientSegment(c.una)>>]
  /\ UNCHANGED <<server, toClient, client, upsets>>

ClientAborts(k) ==
  /\ client[k].state \in {"syn_sent", "open"}
  /\ client' = [client EXCEPT ![k].state = "aborted"]
  /\ toServer' = [toServer EXCEPT ![k] = Append(@, Abort(client[k].snd))]
  /\ UNCHANGED <<server, toClient>>

\* A segment reaches the client: the handshake, then acknowledgements and, in
\* order, the answers and the FIN.  All that takes sequence space is acknowledged.
AckedBy(seg) == (seg.ack - ClientIsn) % SeqMod
Space(seg) == bytes_in_flight(seg.len, seg.flags)
Opened(c, seg) == [c EXCEPT !.state = "open", !.una = 1, !.rcv = Add(seg.seq, 1)]
Heeded(c, seg) ==
  LET news == seg.seq = c.rcv /\ "SYN" \notin seg.flags IN
  [c EXCEPT !.una  = IF AckedBy(seg) \in c.una..c.snd THEN AckedBy(seg) ELSE @,
            !.rcv  = IF news THEN Add(@, Space(seg)) ELSE @,
            !.read = IF news THEN @ \o [i \in 1..seg.len |-> seg.from + i] ELSE @,
            !.state = IF news /\ "FIN" \in seg.flags THEN "done" ELSE @]

ClientReceives(k, seg) ==
  LET c == client[k]
      reply(x) == toServer' = [toServer EXCEPT ![k] = Append(@, x)]
  IN
  /\ UNCHANGED server
  /\ IF "UNREACH" \in seg.flags THEN UNCHANGED <<client, toServer>>
     ELSE \/ /\ c.state = "syn_sent"
             /\ IF "SYN" \in seg.flags /\ AckedBy(seg) = 1
                THEN client' = [client EXCEPT ![k] = Opened(c, seg)] /\ reply(BareAck(1))
                ELSE UNCHANGED <<client, toServer>>
          \/ /\ c.state \in {"open", "done"}
             /\ client' = [client EXCEPT ![k] = Heeded(c, seg)]
             /\ IF Space(seg) > 0 THEN reply(BareAck(c.snd)) ELSE UNCHANGED toServer
          \/ c.state = "aborted" /\ UNCHANGED client /\ reply(Abort(c.snd))

-----------------------------------------------------------------------------
\* The network (external): it takes the first segment of a queue, or another,
\* and may leave it there.

WithoutAt(q, i) == SubSeq(q, 1, i - 1) \o SubSeq(q, i + 1, Len(q))

Upset(n) == upsets' = upsets + n /\ upsets' <= MaxUpsets

ToServer(k, i, again) ==
  /\ ~ crashed /\ i <= Len(toServer[k]) /\ Len(toClient[k]) < MaxBacklog
  /\ toServer' = IF again THEN toServer ELSE [toServer EXCEPT ![k] = WithoutAt(@, i)]
  /\ tcp_in(k, toServer[k][i])

\* The client reads what toClient holds; its answer goes into toServer.
ToClient(k, i, again) ==
  /\ i <= Len(toClient[k]) /\ Len(toServer[k]) < MaxBacklog
  /\ toClient' = IF again THEN toClient ELSE [toClient EXCEPT ![k] = WithoutAt(@, i)]
  /\ ClientReceives(k, toClient[k][i])

Deliver(k) ==
  /\ UNCHANGED upsets
  /\ ToServer(k, 1, FALSE) \/ ToClient(k, 1, FALSE)

Misdeliver(k) ==
  \E i \in 1..MaxBacklog, again \in BOOLEAN :
    /\ i > 1 \/ again
    /\ Upset(1)
    /\ ToServer(k, i, again) \/ ToClient(k, i, again)

Lose(k) ==
  /\ Upset(1)
  /\ UNCHANGED <<server, client>>
  /\ \/ \E i \in 1..Len(toServer[k]) :
          toServer' = [toServer EXCEPT ![k] = WithoutAt(@, i)] /\ UNCHANGED toClient
     \/ \E i \in 1..Len(toClient[k]) :
          toClient' = [toClient EXCEPT ![k] = WithoutAt(@, i)] /\ UNCHANGED toServer

Closing == \E port \in Closable \cap tcp_handler_table : ~ crashed /\ Upset(1) /\ tcp_close(port)

Next ==
  \/ \E k \in Keys : \/ ClientSends(k) \/ ClientResends(k)
                     \/ Upset(1) /\ ClientAborts(k)
                     \/ Deliver(k) \/ Misdeliver(k) \/ Lose(k)
  \/ Closing

\* The stack polls for ever, clients go on with what they began, and a network
\* that is not upset any more delivers.
Fairness ==
  \A k \in Keys : /\ WF_vars(Deliver(k))
                  /\ WF_vars(client[k].state # "closed" /\ ClientSends(k))
                  /\ WF_vars(ClientResends(k))

Spec == Init /\ [][Next]_vars /\ Fairness

-----------------------------------------------------------------------------

Conn(k) == MapGet(tcp_conn_table, k, Time)
Connected(k) == MapHas(tcp_conn_table, k, Time)
Conns == [state : {"LISTEN", "SYN_RECEIVED", "ESTABLISHED", "LAST_ACK"},
          not_send_empty_ack : BOOLEAN, seq : 0..(SeqMod - 1), ack : 0..(SeqMod - 1)]
Segments == [flags : Flags, seq : 0..(SeqMod - 1), len : Nat, from : Nat]

\* Type invariant: the connection table is well formed, in particular its counter
\* is exact, and the segments are of the kind the handlers expect.
TypeOK ==
  /\ tcp_handler_table \subseteq Ports
  /\ MapInv(tcp_conn_table, Keys, Conns, Time)
  /\ toServer \in [Keys -> Seq(Segments)]
  /\ crashed \in BOOLEAN /\ upsets \in 0..MaxUpsets

\* The bytes of k the acknowledgement number of its connection covers.
Acknowledged(k) ==
  IF Connected(k) /\ Conn(k).state # "LISTEN"
  THEN {p \in 1..Total : p < (Conn(k).ack - ClientIsn) % SeqMod} ELSE {}
Heard(k) == {heard[k][i] : i \in 1..Len(heard[k])}

\* Every byte the server is ready to acknowledge was given to the handler during
\* this very connection, whatever the network does (on a port that is open).
AckedWasDelivered ==
  \A k \in Keys : k[2] \in tcp_handler_table => Acknowledged(k) \subseteq Heard(k)

\* What a client reads is what the handler answered, from the first byte on,
\* with no gap, no repetition and nothing from another incarnation.
AnswersInOrder ==
  \A k \in Keys : \A i \in 1..Len(client[k].read) : client[k].read[i] = i

InOrder(s) == \A i \in 1..Len(s) : s[i] = i

\* Without an upset the handler gets the client's bytes in order, each once.
HeardInOrder == upsets = 0 => \A k \in Keys : InOrder(heard[k])

Consumed(k) ==
  /\ Connected(k) /\ Connected(k)' /\ Conn(k).state = "ESTABLISHED"
  /\ Conn(k)'.ack # Conn(k).ack /\ k[2] \in tcp_handler_table
Acks(k) ==
  /\ Len(toClient'[k]) > Len(toClient[k])
  /\ toClient'[k][Len(toClient'[k])].ack = Conn(k)'.ack

\* tcp.c:283-284: an ACK of its own is left out only when the application's
\* tcp_send has carried it: whatever was consumed is acknowledged at once.
EverySegmentAcked == [][\A k \in Keys : Consumed(k) => Acks(k)]_vars

\* The same, in runs without an upset.
EverySegmentAckedUnlessUpset ==
  [][upsets' = 0 => \A k \in Keys : Consumed(k) => Acks(k)]_vars

\* A client that begins on an open port gets all its bytes through, every answer
\* back and the connection closed on both sides, unless something was upset.
\* (Its last ACK may have opened a new entry, in LISTEN: see NullOnlyWhenFull.)
Completed(k) ==
  /\ client[k].state = "done"
  /\ Connected(k) => Conn(k).state = "LISTEN"
  /\ Len(heard[k]) = Total /\ Len(client[k].read) = said[k]
EveryClientCompletes ==
  \A k \in Hosts \X Open : client[k].state = "syn_sent" ~> Completed(k) \/ upsets > 0 \/ crashed

Active(k) == client[k].state \in {"syn_sent", "open"} \/ toServer[k] # <<>>

\* tcp.c:79: tcp_get_connection, told to create, never gives NULL; granted that
\* the table is finite, then only when more clients than it has slots have
\* something to say.
NullOnlyWhenFull == crashed => Cardinality({k \in Keys : Active(k)}) >= ConnSlots
=============================================================================
