# A formal model of the network stack

The repository is a small TCP/IP stack in C that runs in user space on top of Npcap. This
directory holds TLA+ models of its parts, the TLC runs that check them on small instances, and
TLAPS proofs of what matters most for every value of the parameters.

`tlc -config X.cfg M` checks a run, `tlapm M.tla` a proof module; PROJECT.json lists the runs, the
lines each definition stands for, the hazards, the findings and the theorems.

## 1. The system

One thread runs the stack: `net_init`, then `net_poll` for ever. A poll takes at most one frame
from the driver and carries it up by direct calls, and every answer goes down by direct calls in
the same step:

    driver_recv -> ethernet_in -> net_in -> arp_in
                                         -> ip_in -> net_in -> icmp_in | udp_in | tcp_in -> handler
    handler -> udp_send | tcp_send -> ip_out -> arp_out -> ethernet_out -> driver_send

So a step of the stack is a whole handler with all it calls; nothing interleaves with it inside the
stack. What does interleave is the outside: frames that are lost, late, repeated and reordered,
peers that change, and the clock, which every table reads. Only the monitor runs in threads of its
own, which read the counters and hand them to a GUI.

| part | state | operations | depends on | what is hard | what must hold |
|---|---|---|---|---|---|
| timed map (map.c) | slots with key, value, stamp; `size` | init, get, set, delete, foreach | clock | expiry without clean-up, the counter, writes through pointers | one live entry per key; the counter bounds the entries; it is a finite map with expiry |
| ARP (arp.c) | `arp_table`, `arp_buf` | `arp_in`, `arp_out`, `arp_req`, `arp_resp` | two maps | late and unasked replies, changing addresses, a packet that waits, its expiry | no stale address, no overtaking, no packet stuck or sent twice |
| IP (ip.c) | `ip_reassemble_map`, the id counter | `ip_in`, `ip_out` | map, ARP, upper layers | loss, repetition, order, time-out, limits, 16-bit lengths | payloads intact, fresh, handed up at once |
| TCP (tcp.c) | `tcp_conn_table`, `tcp_handler_table` | `tcp_in`, `tcp_send`, `tcp_open`, `tcp_close` | maps, IP, ICMP, handlers | no retransmission, old segments, the delayed ACK mark, a full table | acknowledged means delivered; streams in order; connections end |
| UDP (udp.c) | `udp_table` | `udp_in`, `udp_out`, open, close | map, IP, ICMP | closed ports | dispatch to the right port |
| ICMP and ping (icmp.c) | `map_ping_req`, `map_ping` | `icmp_in`, `ping_req`, `ping_req_check` | maps, IP | late replies, two targets, expiry | a reply is credited to its request |
| dispatch (net.c) | `net_table` | `net_add_protocol`, `net_in` | map | ethertypes and IP protocols share the table | each packet to its protocol |
| Ethernet, driver, buffer (ethernet.c, driver.c, buf.c) | `rxbuf`, `txbuf` | poll, in, out; add and remove headers | Npcap | one buffer used over and over | data stays inside the buffer |
| helpers (utils.c) | none | checksums, prefix match | | odd lengths, carries | equal to their definitions |
| statistics, monitor (protocol_stats.c, monitor_server.c) | counters; client slots, a lock | accept, serve, clean up | threads, sockets | races on slots and handles | a slot has one owner |
| GUI (monitor_gui.py) | socket, lock, flags | connect, poll, disconnect | threads | blocking under a lock | the window stays responsive |

## 2. Modules

| module | what it is |
|---|---|
| `TimedMap` | map.c as operators on a record, used by every module below but the monitor's |
| `TimedStore` | the abstract store: a partial function whose entries expire, and which may refuse a key |
| `MapService` | one map, the clock and all calls on it; refines `TimedStore` |
| `Arp` | address resolution against any sequence of ARP messages |
| `Ip` | cutting at the peers, reassembly at the stack, an unreliable network between |
| `Tcp` | the TCP server against clients that retransmit and a network that loses, repeats, reorders |
| `Buf`, `Checksum`, `Ping` | buf.c, the sums and prefix of utils.c and the ping records of icmp.c, as operators |
| `Stack` | the polling thread of icmp_server and udp_server, from `driver_open` to the handlers and back: dispatch, the one `rxbuf`, pings, UDP |
| `Monitor` | the accepting thread, the client threads, the slots and the lock of monitor_server.c, and the counters |
| `MonitorGui` | the window and the update thread of monitor_gui.py, composed with `Monitor` |
| `TimedMapTheorems` | what each operator of `TimedMap` does, proved once |
| `MapServiceProofs`, `ArpProofs`, `IpProofs`, `TcpProofs`, `StackProofs`, `MonitorProofs` | the theorems of the modules they are named after |
| `TcpAnswers` | the theorems about what the clients of `Tcp` read, upon `TcpProofs` |
| `MC...` | constants for TLC |

**State and code.** A variable has the name of the C variable it models. `TimedMap` keeps the
slots, because what goes wrong in map.c goes wrong there: a slot whose entry expired still holds
its key, is free for `map_set`, and is still counted. A slot that was deleted keeps its bytes in C;
the zero stamp hides them, so the model has `Vacant`. `MapRevise` is a client's write through the
pointer of `map_get`: `ip_reassemble_insert_fragment` and the TCP state machine work that way, and it
does not renew the stamp.

**Steps.** In `Arp`, `Ip`, `Tcp` and `Stack` a step is one call from the main loop with everything a
frame causes. `Stack` reads the source address where the code reads it: `ip_in` passes on a pointer
into `rxbuf`, `transport_checksum` writes the pseudo header over those bytes and puts them back, and
the handler's answer reads the address after that. In `Monitor` and `MonitorGui` a step is one call
that may block, one section under a lock, or one access to what another thread may change.

**Time** is `now`, in seconds; `Tick` advances it up to `Horizon`. One handler reads one second. The
real code calls `time(NULL)` for each slot; a boundary inside a call could only make an entry expire
in the middle of it, and since an expired entry stays expired the outcome is that of one or the other
second for the key at hand. The connection tables have no life time and need no clock. `Stack` keeps
ages instead of clock readings, so that the main loop can run for ever in finitely many states; there
the two looks of `ping_req` at the clock may fall into two seconds.

**Data.** Addresses, hardware addresses and values are model values. A packet in `Arp` is its number
in the order of `arp_out`; a byte in `Ip` and `Tcp` is its position in its datagram or stream, so that
misplaced, missing, repeated and foreign bytes all show. In `Stack` addresses, ports and payloads are
single words of the checksum, so that sums and carries are the real ones at a smaller word. Headers
that fail a length, version or checksum test are dropped before any state changes and count as lost. Frames in `Stack` carry the length their IP header states for
itself (`hlen`), which nothing in `ip_in` checks before it takes that much away (ip.c:281).

**Environment.** `Arp`: any ARP message at any time. `Ip`: every fragment ever sent may arrive at any
time, never or often. `Tcp`: one queue per direction; a loss, a repetition, a delivery out of order,
an abort by the client and a port closing are *upsets*, at most `MaxUpsets` per behaviour. Clients are
written from what TCP asks of them, not from this code: they number SYN, data and FIN, resend what is
not acknowledged when the line is quiet, take answers in order and acknowledge whatever takes
sequence space. The server never reads the ack field of a segment, so clients do not send one.
`Stack`: frames of other hosts of every kind the handlers tell apart, with IP options and without, frames whose IP
header states a length too short or beyond the packet, datagrams with one word damaged on the way, and answers to
the echo requests of this process, each never, late or often; hosts answer
only what they were asked. `Monitor`: a request travels whole, a line of the report may arrive in two
parts, and a closing connection may lose what is still under way. The system gives out any free handle, and
a thread may fail to start.

**Ghosts** record history the code does not keep: what an address last said (`heard`, `asked`, `lastOut`
in `Arp`), what was sent (`sent` in `Ip`), which bytes the handler heard and how many it answered
(`heard`, `said`, `incarnations` in `Tcp`), the frame and the answer of a step and which requests were answered
while they were awaited, by their target (`right`) or by another (`fooled`), in `Stack`. No guard of the
code's actions reads them, with one exception: the server's initial sequence number is drawn at random in the
code, and in `Tcp` differs between incarnations of one connection, of which there are at most
`MaxIncarnations`.

## 3. Runs

| run | bounds | shows |
|---|---|---|
| `map_check` | 3 keys, 2 values, 2 slots, life 0 or 1, 4 seconds | more keys than slots, so refusal, take-over of expired slots and the drift of the counter all happen; invariants and the refinement hold |
| `map_drift` (violation) | same | a key is refused though slots are free |
| `arp` | 2 peers, 2 hardware addresses, 2+1 slots, table life 2, waiting 1, 4 seconds, 3 packets | changing addresses, expiry of both tables, a full buffer; order, freshness and no stuck packet |
| `arp_pace` (violation) | same | two requests for one address in one second |
| `ip` | 2 peers, 2 datagrams, 1 to 4 fragments of unequal size, 2 nodes, limit 3, time-out 1, 3 seconds | over-long datagrams, both nodes taken, expiry while fragments arrive |
| `ip_wrap` (violation) | one datagram one byte past the 16 bits (scaled to 18) | it is handed up one byte long |
| `tcp` | 1 host, an open and a closed port, 1 slot, 2 segments, 1 upset | order, immediate acknowledgement and completion without an upset; also the full table and the closed port |
| `tcp_upsets` | 1 connection, 2 incarnations, 3 upsets | what holds on any network |
| `tcp_silent` (violation) | 1 upset | a consumed segment that is not acknowledged |
| `tcp_null` (violation) | 2 hosts, 1 slot, no upset | a NULL connection in spite of idle clients |
| `stack` | words of 2 bits, 2 peers, an open and a closed port, 2 targets of 2 requests each, seconds of 2 ticks, all small interface lists, IP headers of 3 lengths, 3 frames | the whole receive path (about 433,000 states, two minutes): replies are credited once, damage shows, answers go back and verify, the right interface is opened, `rxbuf` lasts as long as promised, reports quote the packet where the code can promise it, every ping ends |
| `monitor` | 1 slot, 2 handles, 2 connections of the window and 1 of another program, 1 counter, 2 clicks | server and window (about 370,000 states, over two minutes): slots and handles have one owner and come back, answers are never late, what is shown never goes back, a click returns |

The bounds are the smallest at which each branch of the code is taken and each resource runs out: one
key more than there are slots, one fragment more than fit, one second more than a life time, one
connection more than the table holds, one datagram more than the buffer takes, one client more than there are
slots, as many handles as make each be used again at once. `SeqMod`, `LenMod`, `IdMod` and `WordMod` stand for
2^32 and 2^16; the TCP clients start two below the wrap so that every run crosses it. `ip` uses symmetry
over the peers (it has no liveness property). `CHECK_DEADLOCK FALSE` appears where the system may really stop: in
the TCP runs, when every client is done or the process has died; in `stack`, when no interface was found or the
process died; in `monitor`, where a window whose connections are all used up only waits.

**Fairness.** `Tcp`: weak fairness of delivery (the poll loop runs for ever, and a network that is not
upset any more delivers), of a client's next segment once it has begun, and of its retransmission timer.
No fairness is put on upsets or on starting. `EveryClientCompletes` promises completion only for runs
without an upset, because the code has no retransmission at all: after one lost SYN-ACK the client's SYN
is ignored for ever. `Stack`: the main loop and the clock go on; no answer has to come. `Monitor`: each thread
runs (weak fairness of its steps), and what is under way arrives or the connection ends. For `sock_lock`, which
Python gives in no order, strong fairness of the two who lock it: each is away from it for a second in every turn
(`time.sleep(1)`, or a click), so that the other finds it free again and again.

## 4. What the findings say

* **The counter of a map counts expired entries** (`map_drift`). `map_set` takes over a slot whose entry
  expired and increments `size` again. Nothing else is wrong with the map, and `SizeBounds` proves that
  the drift is always upwards, but after `max_size` expiries an empty map refuses every new key. For
  `arp_buf` this takes 15 unanswered requests, for `ip_reassemble_map` some 855 incomplete datagrams.
* **A refused `map_set` goes unseen** (`arp_pace`): with `arp_buf` full there is no limit to the rate of
  requests.
* **Lengths wrap at 16 bits** (`ip_wrap`), consistently in the length and in the completeness check, so
  that a datagram of 65536 bytes or more is found complete and is cut.
* **`not_send_empty_ack` outlives its segment** (`tcp_silent`): an answer to data that completed the
  handshake leaves it set, and the next segment gets no ACK.
* **LAST_ACK is left at any ACK** (`tcp_null`): when the client's FIN overtakes its ACK of an answer, that
  ACK closes the connection, and the ACK of the FIN creates a new entry, in LISTEN, that nothing removes.
  The table fills, and the next peer's segment meets a NULL pointer.

## 5. Proofs

`TimedMapTheorems` states for each operator what it does to a well-formed map, for every set of keys
and values, any capacity and life time: the effect on the key, that every other key is as before, and
that the map stays well formed (`MapInv`). The hard part is the counter: `MapCounted` bounds the drift
between `size` and the number of live entries, and each operator's effect on that number is a
statement about the cardinality of the set of live slots.

`MapServiceProofs` proves, from `CapacityAssumption` and `LivesAssumption` alone:

* `Invariance`: `IInv` is inductive. `TypeOK` is not enough: that a delete removes *the* entry of a key
  needs `UniqueLive`, that `size` cannot go below zero needs `MapCounted`, and `UniqueLive` after
  `map_set` needs that the free slot it takes was not live.
* `TypeCorrect`, `KeysUnique`, `SizeBounds`, `SizeExact`: the invariants of `map_check`, from `IInv`.
* `Refinement`: `MapService` implements `TimedStore`, mapping the slots to the partial function of live
  entries. Each action maps to the store's action of the same name; `RefusalMeansFull` gives the store
  its reason to refuse.

`ArpProofs` proves every property of the run `arp`, from `SlotsAssumption` and `TimesAssumption`: any set
of peers, any capacities and life times, and, since the theorems do not use them, any `Horizon` and
`MaxPackets`. The inductive invariant is

* both maps are well formed (`MapsInv`, that is `MapInv` of each): without it a deleted key could still
  be present in a second slot;
* `KnownAsHeard`: a live entry of `arp_table` is what its address last said. This is what `FreshAddress`
  needs of `arp_out`, and it survives a *refused* `map_set` because a refused key was not live before
  (`SetShows`): the table forgets, it never remembers wrongly;
* `HeldSlots`: a waiting packet is stamped with the second of its request and later than all that went
  out to its address. `InOrder` follows at once, also across the expiry of the waiting packet.

Each action is cut into what it does to the two maps, by `MapSetEffect`, `MapDeleteEffect` and
`MapLaterEffect`, and then one step per conjunct; for addresses other than the one at hand `SameFor` says
that nothing changed.

`IpProofs` proves of reassembly, for any peers, lengths, widths, nodes and limits:

* `Invariance`, `TypeCorrect` and `PiecesFresh`. The inductive invariant says that a live node fits its array
  and that none of its pieces came before its stamp (`NodesInv`); the latter is what `FreshPieces` needs,
  and it holds because `map_set` stamps a node at its first fragment and writes through the pointer of
  `map_get` do not renew the stamp.
* `OrderKept`: while ids are not used again and payloads stay below what offsets reach (`IdsLast`), the
  fragments of a node are sorted, each once, and fit the array (`NodesInOrder`). The strengthening ties each kept
  piece to a fragment still on the network (`OrderInv`): two fragments of one id and offset are the same one
  (`CutOnce`), so a repetition is always recognised. That the insertion keeps the order rests on
  `InsertEffect` and `Prefix`: the place found is behind all smaller offsets and before all larger ones.

* `IntactHandedUp` and `CompleteNotKept`: if payloads are moreover shorter than a `uint16_t` holds (`LensFit`), what is handed up
  is byte for byte what was sent, and, if no payload is empty, no live node holds a whole datagram. The invariant (`BuildInv`) adds
  that fragments of one id belong to one datagram and do not overlap (`NetCut`), that each piece of a node is one of them
  taken over as it is, that a node knows its length exactly when it has the end (`Built`), and that no live
  node is complete. The lemmas behind it are about the loop that adds up the lengths: `Filled` is a recursive function, and that
  it satisfies its equation (`FilledIs`), like that the sums stay at the pieces' ends (`CoversCompletes`) and every byte
  has a last writer (`CompleteMerges`), is shown by taking the least number for which it would fail. Without
  `LensFit` the property is false, as the run `ip_wrap` shows.

`TcpProofs` proves `TypeOK` and `AckedWasDelivered` for any hosts, ports, slots, lengths and sequence space
and any number of upsets. The inductive invariant (`Inv`) says of each connection that was accepted that its
`ack` is the number of a *place* of the client's stream, a border between two segments, and that on an
open port everything before it was heard (`ConnOK`). A segment taken in ESTABLISHED begins exactly there
(`OutOfOrder`), numbers of different places differ because the stream is shorter than the sequence space
(`PlaceOnce`), and so the segment's bytes are the ones that follow (`SegmentSays`), to its end, which is a place again. The
wrap of sequence numbers is in `PlacesRange` and `PlaceNext`; that writing one connection touches no other is
`MapSetEffect`, `MapDeleteEffect` and `MapSweepEffect`.

It also proves what holds while nothing was upset: `HeardInOrder` (`HeardRight`) and the action property
`EverySegmentAckedUnlessUpset` (`AckedAtOnce`), again for any clients, streams and answers. Neither is inductive, because each
is about the server alone and it matters what is on its way. The strengthening (`Calm`, upon `Inv`) says for each key in which
*phase* the client, the two queues and the connection are together: nothing yet (`Idle`), the SYN on its way (`Asking`), the
SYN-ACK on its way (`Asked`), its ACK first in the queue (`Meeting`), the conversation (`Talking`), or the FIN was
taken (`Parting`). In the conversation the connection's `ack` is the byte after those heard and no mark of an ACK already
sent is left (`Even`), and nothing but acknowledgements follows the client's FIN in the queue (`Line`). That is what forbids
data after `LAST_ACK` and in `LISTEN`, where it would be heard without being counted. A client repeats a segment only
when both queues are empty: in the handshake they never are, and once the FIN was taken its acknowledgement is on its way or
was read (`FinAcked`), so that there is nothing to repeat. There is one lemma for what each party does in any phase
(`PhaseSends`, `PhaseResends`, `PhaseTakes`, `PhaseProcess`, `PhaseDiscard`); `ServesOthers` says that the other keys do not notice.

`TcpAnswers` proves `AnswersInOrder`: a client reads what the handler answered, from the first byte on, with no
gap and nothing twice. The server numbers its answers from a first number that depends on the incarnation of the
connection (a client's repeated SYN opens another one once the first is gone; the client itself begins once), and the
trouble is a segment of an earlier incarnation that reaches the client while it follows a later one. The
invariant (`AnswersTraced`) therefore says for each address that there is a record of where every earlier incarnation's
FIN ended with which: each segment to the client belongs to one incarnation, its number being that incarnation's first one plus a
position in its answers (`Segs`); the client follows one incarnation and has read exactly its first bytes
(`Reads`); the server's `seq` is the number after what it has said, and after the FIN once it sent one (`Counted`).
A segment the client takes has the number it expects, two incarnations' numbers never meet, so it is the next
piece of the same answers. That they never meet is `InShare`: what one incarnation says fits its share of the
sequence space. `Tracing` assumes it, `AnswersBounded` proves that the answers of an incarnation are at
most the longest answer for each segment of the stream and two more, and `AnswersRead` puts the two together under `Roomy`:
the sequence space is large enough for that. For 2^32 numbers and the lengths of the code this is no restriction; the
runs satisfy it too (answers of one byte, two segments, 16 numbers for each incarnation).

`StackProofs` proves every invariant of the run `stack`, in six parts that share little:

* The buffer: no operation of `Buf` that is not refused leaves the array, what is added can be removed, and the pseudo header is
  put back (`PseudoHeaderRoundTrip`). From these follow `AnswersReturn` (an answer goes to the address the frame came from, however the
  buffer was written over) and `BufferLasts`: a frame moves `rxbuf.data` by the Ethernet header, by what the IP header states
  of itself and by the UDP header at most, so that an overrun needs as many frames as the half of the array behind the
  origin takes. Since ip.c:281 takes `hdr_len * 4` on trust, the bound is `EthLen + HdrLenMax + UdpLen`, with the
  most that four bits can state (60 bytes), not the 20 of a plain header.
* What reports quote: `PacketQuoted`. A closed port's report begins at the IP header of the frame if stepping back over 20 bytes
  finds it, that is if it has no options. An unknown protocol's report is made of the copy of `buf_copy`, which
  copies the array as it is and sets `data` as for a fresh buffer; the two agree for the first frame after `net_init`, if it has
  the largest length, and for a later one only if it happens to be shorter by just as much as `data` has moved, since
  `driver_recv` does not put `data` back. So the promise ends there, and later reports quote other bytes of the array. The unit tests do not show it: their driver sets `rxbuf` up for each frame.
* The checksum, for words of any width: `DamageIsSeen`, `UndamagedIsHeard`, `EchoesVerify`. The loop over the
  carries ends with a number below `WordMod` that differs from the sum by a multiple of `WordMod - 1` and is zero only
  if the sum is (`Folded`). Its function is defined by recursion on ever smaller sums: that there is one
  for each sum is shown by taking the least sum for which there would be none (`FoldsExist`), and
  `FoldedOnce` says that the two facts determine the result. Hence `Checksums`: the code's sum is the sender's, but for
  the zero that is sent as all ones. A single damaged word moves the sum by less than `WordMod`, so
  that it is seen unless it is zero turned into all ones (`OneDamageShows`). To reach a handler, a frame needs the table `net_init`
  fills (`NetTableDispatches`): `Told` says what may be heard and sent for one frame, and each handler keeps to it.
* Ping: `NeverNull`, `RepliesOnce`, `AverageBetween`. The invariant (`PingOK`) says for each target that it has a
  record only if its turn has come, finished if its turn is over; that its current request is in `map_ping_req`, as is
  each request that may still be answered (`OnWire`); that no request after the current one was ever answered while awaited; and that
  the request now out shows a reply exactly if it was (`PingAt`). That `map_ping_req` never refuses a
  number is a count: it has a slot for each of the `PingTestTime` numbers (`RoomForAll`), though not one for
  each target and number.
* The interface: `InterfaceIsBest`. `PrefixMatch` says that `ip_prefix_match` is the first bit that differs, so that
  the match of an address is at least that of its netmask exactly if it is on the subnet (`MatchSays`).
* The types (`StackTypes`), last because they rest on the others.

The assumptions are `LengthsAssumption` (a frame is no shorter than an Ethernet header, which is no shorter than a pseudo header; the longest
headers fit the longest frame, and that the half of the array before the origin), `WordsAssumption` (addresses, ports and payloads are words), `PortsAssumption`, `PingsAssumption` (the targets of
`icmp_server` are different addresses, as in its array) and `InterfacesAssumption` (an IPv4 address has the
width of the own one, and a netmask is ones followed by zeros; this is what systems report, and `driver_find` relies on it).

`MonitorProofs` proves for any number of slots, handles and connections that a slot has one owner
(`SlotsNotShared`), that a client thread's handle is open and stands for its connection (`SocketsOwn`), and that an active slot
has a thread that will clear it (`SlotsKept`). The invariant adds that a
connection nobody has accepted belongs to nobody (`Waiting`), that the acceptor's handle is open until a thread has it
(`Held`), and that a slot in use is marked and, until its thread has read it, holds that thread's handle
(`Marked`); a slot may go on naming a handle that was closed and given to another.

About the window it proves, upon that, `NoAnswerLate` (`NothingLate`), `ShownNeverGoesBack` (`ShownGrows`) and the types
(`WindowTyped`). The invariant (`Talk`, theorem `Conversation`) says of the connection the window has that
at most one request or answer is under way, and where (`Talking`): while the update thread waits in `recv` the request is on its
way, or the server puts its answer together, or the answer is on its way or partly read, or the server is gone; at
all other times the queues and the buffer are empty and the server's thread waits for a request (`Quiet`). A
connection nobody has made carries nothing (`Fresh`), one that was closed is nobody's (`Closed`), and a
report is complete when it is sent (`Drafts`). `ShownNeverGoesBack` follows because the numbers of the
answer under way lie between those shown and the counters, which are set up before the monitor
listens (`Booting`).

**Only model-checked**: liveness (`EveryClientCompletes`, `EveryPingEnds`, `SlotsComeBack`, `ClickReturns`), which is
outside what TLAPS proves here. Every invariant and every action property of a passing run is a theorem. `AverageInRange`,
which looks at one record only, is a theorem (`AverageBetween`) and in no run.

## 6. Not modelled, and the plan

Of the 8,363 lines of C and Python outside the tests, 4,926 are vendored headers of Npcap, which declare
an interface and have no behaviour to model. The rest of what no definition stands for is listed here.

Left out for good: Npcap itself and the sockets, printing, JSON and HTML text, the test fakers. `ip_server`, which
registers a protocol of its own, and what `tcp_server` and `web_server` answer, except as the choice a handler has.

In the parts that are modelled:

* IP: the loopback path of `ip_out`, the protocol-unreachable answer to a reassembled datagram, `malloc` failure. `Stack` has
  datagrams of one fragment only; those of many are in `Ip`, without options. A stated header length that is wrong is in
  `Stack` as far as it moves the buffer; what a handler may take the misplaced bytes for is not (such frames are of no
  type `icmp_in` knows, and datagrams have a whole header). A `total_len` below the header's own length is not.
* TCP: data in a SYN, `tcp_open` after polling began, a client that uses other segment lengths in one stream, one
  that begins again from the same port, a `doff` beyond the segment. A handler answers a segment with one `tcp_send` at
  most, as `tcp_server` does; `web_server` calls it several times.
* Ping: an answer of another target counts for the request now out (`fooled`), as the code cannot tell, and
  `RepliesCountedOnce` counts it; replies to numbers never asked, which give NULL at once, are kept out by the environment.
* ARP: the waiting buffer of the run `arp` has one slot, which the first expiry wears out; larger ones are left to the
  theorems.
* Sending in `Stack`: `driver_send`, `ethernet_out` and `txbuf`, which is built anew for each packet; length and
  time-to-live fields.
* Monitor: `broadcast_stats`, which nothing calls, and `monitor_server_cleanup`, which follows an endless
  sleep; failures of `socket`, `bind` and `listen`; a report torn between two counters (the run has one); a
  request that arrives in parts.

Next, in this order:

1. `Tcp` with data in the SYN and in the FIN segment.
2. `Stack` composed with `Arp`: answers that wait for an address while `rxbuf` is used for the next frame.
3. The capacity of `map_ping_req` and of `net_table` when an application registers more than it has room for.
