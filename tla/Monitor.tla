------------------------------ MODULE Monitor ------------------------------
(***************************************************************************)
(* The monitor server (src/monitor_server.c) inside a running stack: the   *)
(* polling thread that changes the counters (protocol_stats.c), the thread *)
(* that accepts connections, and one thread for each client.               *)
(*                                                                         *)
(* A connection is a name; its two directions are queues.  The system      *)
(* gives an accepted connection any handle that is free, so a handle is    *)
(* used again as soon as it is closed.  clients_lock protects the table of *)
(* clients; no thread keeps it across a call that blocks, so a section     *)
(* under it is one step.  A client thread reads its entry of the table     *)
(* without the lock.                                                       *)
(*                                                                         *)
(* broadcast_stats and monitor_server_cleanup are not here: nothing calls  *)
(* the first, and the second follows a Sleep(INFINITE).                    *)
(***************************************************************************)
EXTENDS Integers, Sequences, FiniteSets

CONSTANTS Conns,        \* connections that may be made
          Handles,      \* SOCKET values
          MaxClients,   \* MAX_CLIENTS
          Counters,     \* the counters of all layers
          MaxCount      \* bound on each counter

ASSUME SizesAssumption == MaxClients \in Nat /\ MaxCount \in Nat
ASSUME CountersAssumption == "ethernet" \in Counters

NoConn == "no connection"
INVALID_SOCKET == "invalid"
ASSUME NamesAssumption == NoConn \notin Conns /\ INVALID_SOCKET \notin Handles

VARIABLES
  boot,       \* how far net_init has come
  stats,      \* the counters
  clients,    \* the table: [sock, active] for each client_id
  acceptor,   \* the accepting thread: pc, the connection and handle it holds, client_id
  thread,     \* the client thread of each connection: pc, client_id, client_sock
  report,     \* what each client thread has read of the counters so far
  handle,     \* the connection each handle stands for
  backlog,    \* connections not accepted yet
  to_server, to_client,   \* what is under way
  left, ended             \* connections closed by the client, by the server

counters == <<boot, stats>>
server == <<clients, acceptor, thread, handle>>
network == <<backlog, to_server, to_client, left, ended>>
serverVars == <<counters, server, report, network>>

Ids == 0..(MaxClients - 1)
Zero == [k \in Counters |-> 0]
Idle == [pc |-> "accept", conn |-> NoConn, sock |-> INVALID_SOCKET, client_id |-> 0]
NoThread == [pc |-> "none", client_id |-> 0, client_sock |-> INVALID_SOCKET]
Unread == -1
NothingRead == [k \in Counters |-> Unread]

ServerInit ==
  /\ boot = "arp_init" /\ stats = Zero
  /\ clients = [i \in Ids |-> [sock |-> INVALID_SOCKET, active |-> FALSE]]
  /\ acceptor = Idle
  /\ thread = [c \in Conns |-> NoThread]
  /\ report = [c \in Conns |-> NothingRead]
  /\ handle = [h \in Handles |-> NoConn]
  /\ backlog = <<>>
  /\ to_server = [c \in Conns |-> <<>>] /\ to_client = [c \in Conns |-> <<>>]
  /\ left = {} /\ ended = {}

-----------------------------------------------------------------------------
(* The main thread: net_init in its order, then polling *)

\* The announcement of arp_init is counted, and protocol_stats_init wipes it out
\* before the monitor starts.
arp_init ==
  /\ boot = "arp_init" /\ boot' = "protocol_stats_init"
  /\ stats' = [stats EXCEPT !["ethernet"] = 1]
  /\ UNCHANGED <<server, report, network>>
protocol_stats_init ==
  /\ boot = "protocol_stats_init" /\ boot' = "monitor_server_init"
  /\ stats' = Zero
  /\ UNCHANGED <<server, report, network>>
monitor_server_init ==
  /\ boot = "monitor_server_init" /\ boot' = "polling"
  /\ UNCHANGED <<stats, server, report, network>>

\* A frame is counted on its way through the layers.
Count(k) ==
  /\ boot = "polling" /\ stats[k] < MaxCount
  /\ stats' = [stats EXCEPT ![k] = @ + 1]
  /\ UNCHANGED <<boot, server, report, network>>

\* Mutant: the monitor listens before the counters are set up.
listens_early == TRUE

Listening == boot = "polling"

-----------------------------------------------------------------------------
(* The accepting thread *)

\* What has not been read is lost.
closesocket(h) ==
  /\ handle' = [handle EXCEPT ![h] = NoConn]
  /\ ended' = ended \cup {handle[h]}
  /\ to_server' = [c \in Conns |-> IF c = handle[h] THEN <<>> ELSE to_server[c]]

accept ==
  /\ Listening /\ acceptor.pc = "accept" /\ backlog # <<>>
  /\ \E h \in Handles :
       /\ handle[h] = NoConn
       /\ handle' = [handle EXCEPT ![h] = Head(backlog)]
       /\ acceptor' = [pc |-> "place", conn |-> Head(backlog), sock |-> h, client_id |-> 0]
  /\ backlog' = Tail(backlog)
  /\ UNCHANGED <<counters, clients, thread, report, to_server, to_client, left, ended>>

\* Mutant: the search goes one slot too far.
free_ids_one_more == {i \in 0..MaxClients : i = MaxClients \/ ~clients[i].active}

FreeIds == {i \in Ids : ~clients[i].active}

\* Mutant: the slot is filled but not marked active.
place_unmarked ==
  /\ acceptor.pc = "place"
  /\ IF FreeIds = {}
     THEN acceptor' = [acceptor EXCEPT !.pc = "reject"] /\ UNCHANGED clients
     ELSE LET i == CHOOSE j \in FreeIds : \A k \in FreeIds : j <= k
          IN  /\ clients' = [clients EXCEPT ![i].sock = acceptor.sock]
              /\ acceptor' = [acceptor EXCEPT !.pc = "spawn", !.client_id = i]
  /\ UNCHANGED <<counters, thread, handle, report, network>>

\* Under the lock: the first slot that is not active.
place ==
  /\ acceptor.pc = "place"
  /\ IF FreeIds = {}
     THEN acceptor' = [acceptor EXCEPT !.pc = "reject"] /\ UNCHANGED clients
     ELSE LET i == CHOOSE j \in FreeIds : \A k \in FreeIds : j <= k
          IN  /\ clients' = [clients EXCEPT ![i] = [sock |-> acceptor.sock, active |-> TRUE]]
              /\ acceptor' = [acceptor EXCEPT !.pc = "spawn", !.client_id = i]
  /\ UNCHANGED <<counters, thread, handle, report, network>>

\* Mutant: the accepting thread closes its socket in either case.
spawn_closes ==
  /\ acceptor.pc = "spawn"
  /\ closesocket(acceptor.sock)
  /\ acceptor' = Idle
  /\ thread' = [thread EXCEPT ![acceptor.conn] =
       [pc |-> "start", client_id |-> acceptor.client_id, client_sock |-> INVALID_SOCKET]]
  /\ UNCHANGED <<counters, clients, report, backlog, to_client, left>>

spawn ==
  /\ acceptor.pc = "spawn"
  /\ acceptor' = Idle
  /\ thread' = [thread EXCEPT ![acceptor.conn] =
       [pc |-> "start", client_id |-> acceptor.client_id, client_sock |-> INVALID_SOCKET]]
  /\ UNCHANGED <<counters, clients, handle, report, network>>

\* CreateThread fails: the socket is closed first, the slot given back after.
spawn_fails ==
  /\ acceptor.pc = "spawn"
  /\ closesocket(acceptor.sock)
  /\ acceptor' = [acceptor EXCEPT !.pc = "give_back"]
  /\ UNCHANGED <<counters, clients, thread, report, backlog, to_client, left>>

\* Mutant: the slot is not given back.
give_back_forgotten ==
  /\ acceptor.pc = "give_back"
  /\ acceptor' = Idle
  /\ UNCHANGED <<counters, clients, thread, handle, report, network>>

\* Its sock keeps the handle that was closed.
give_back ==
  /\ acceptor.pc = "give_back"
  /\ clients' = [clients EXCEPT ![acceptor.client_id].active = FALSE]
  /\ acceptor' = Idle
  /\ UNCHANGED <<counters, thread, handle, report, network>>

reject ==
  /\ acceptor.pc = "reject"
  /\ closesocket(acceptor.sock)
  /\ acceptor' = Idle
  /\ UNCHANGED <<counters, clients, thread, report, backlog, to_client, left>>

-----------------------------------------------------------------------------
(* client_handler *)

At(c, pc) == thread[c].pc = pc
Goto(c, pc) == thread' = [thread EXCEPT ![c].pc = pc]

\* The connection at the other end of a client thread's socket.
Peer(c) == handle[thread[c].client_sock]

start(c) ==
  /\ At(c, "start")
  /\ thread' = [thread EXCEPT ![c] =
       [pc |-> "while", client_id |-> @.client_id, client_sock |-> clients[@.client_id].sock]]
  /\ UNCHANGED <<counters, clients, acceptor, handle, report, network>>

while(c) ==
  /\ At(c, "while")
  /\ Goto(c, IF clients[thread[c].client_id].active THEN "recv" ELSE "close")
  /\ UNCHANGED <<counters, clients, acceptor, handle, report, network>>

\* recv gives what has arrived, in which strstr looks for a request.
recv(c) ==
  /\ At(c, "recv") /\ Peer(c) # NoConn
  /\ to_server[Peer(c)] # <<>>
  /\ to_server' = [to_server EXCEPT ![Peer(c)] = <<>>]
  /\ Goto(c, "read")
  /\ UNCHANGED <<counters, clients, acceptor, handle, report, backlog, to_client, left, ended>>

\* Mutant: only an error ends the loop, not the end of the stream.
recv_end_ignored(c) ==
  /\ At(c, "recv") /\ Peer(c) \in left
  /\ Goto(c, "while")
  /\ UNCHANGED <<counters, clients, acceptor, handle, report, network>>

\* The end of the stream, or a reset, which overtakes what was sent before.
recv_end(c) ==
  /\ At(c, "recv") /\ Peer(c) \in left
  /\ Goto(c, "close")
  /\ UNCHANGED <<counters, clients, acceptor, handle, report, network>>

\* protocol_stats_to_json hands the counters to snprintf one after the other, in
\* an order the compiler chooses, while the polling thread goes on.
protocol_stats_to_json(c) ==
  /\ At(c, "read")
  /\ \E k \in Counters :
       /\ report[c][k] = Unread
       /\ report' = [report EXCEPT ![c][k] = stats[k]]
  /\ Goto(c, IF \E k \in Counters : report'[c][k] = Unread THEN "read" ELSE "send")
  /\ UNCHANGED <<counters, clients, acceptor, handle, network>>

\* A line travels in two parts, of which the second ends with the newline.
Line(r) == <<<<"head", r>>, <<"tail", r>>>>
send(c) ==
  /\ At(c, "send") /\ Peer(c) # NoConn
  /\ to_client' = IF Peer(c) \in left THEN to_client
                  ELSE [to_client EXCEPT ![Peer(c)] = @ \o Line(report[c])]
  /\ report' = [report EXCEPT ![c] = NothingRead]
  /\ Goto(c, "while")
  /\ UNCHANGED <<counters, clients, acceptor, handle, backlog, to_server, left, ended>>

\* The socket is closed before the lock is taken and the slot cleared.
close(c) ==
  /\ At(c, "close") /\ thread[c].client_sock \in Handles
  /\ closesocket(thread[c].client_sock)
  /\ Goto(c, "clear")
  /\ UNCHANGED <<counters, clients, acceptor, report, backlog, to_client, left>>

clear(c) ==
  /\ At(c, "clear")
  /\ clients' = [clients EXCEPT ![thread[c].client_id] =
                   [sock |-> INVALID_SOCKET, active |-> FALSE]]
  /\ thread' = [thread EXCEPT ![c] = [NoThread EXCEPT !.pc = "done"]]
  /\ UNCHANGED <<counters, acceptor, handle, report, network>>

client_handler(c) ==
  \/ start(c) \/ while(c) \/ recv(c) \/ recv_end(c)
  \/ protocol_stats_to_json(c) \/ send(c) \/ close(c) \/ clear(c)

ServerNext ==
  \/ arp_init \/ protocol_stats_init \/ monitor_server_init
  \/ \E k \in Counters : Count(k)
  \/ accept \/ place \/ spawn \/ spawn_fails \/ give_back \/ reject
  \/ \E c \in Conns : client_handler(c)

\* Threads run: the main thread through net_init, the accepting thread, and
\* every client thread.
ServerFairness ==
  /\ WF_serverVars(arp_init) /\ WF_serverVars(protocol_stats_init)
  /\ WF_serverVars(monitor_server_init)
  /\ WF_serverVars(accept \/ place \/ spawn \/ spawn_fails \/ give_back \/ reject)
  /\ \A c \in Conns : WF_serverVars(client_handler(c))

-----------------------------------------------------------------------------

Threads == [pc : {"none", "start", "while", "recv", "read", "send", "close", "clear", "done"},
            client_id : Ids \cup {0}, client_sock : Handles \cup {INVALID_SOCKET}]

\* The types of what the threads of the server share.
ServerTypeOK ==
  /\ clients \in [Ids -> [sock : Handles \cup {INVALID_SOCKET}, active : BOOLEAN]]
  /\ acceptor \in [pc : {"accept", "place", "spawn", "give_back", "reject"},
                   conn : Conns \cup {NoConn}, sock : Handles \cup {INVALID_SOCKET},
                   client_id : Ids \cup {0}]
  /\ thread \in [Conns -> Threads]
  /\ handle \in [Handles -> Conns \cup {NoConn}]
  /\ backlog \in Seq(Conns) /\ left \subseteq Conns /\ ended \subseteq Conns

Live == {c \in Conns : thread[c].pc \notin {"none", "done"}}
Started(c) == thread[c].pc \notin {"none", "start", "clear", "done"}
Placing == acceptor.pc \in {"spawn", "give_back"}
Holding == acceptor.pc \in {"place", "spawn", "reject"}

\* No two threads have the same slot: a slot in use belongs to one client
\* thread, or to the accepting thread that is about to start one.
OneOwner ==
  /\ \A c, d \in Live : thread[c].client_id = thread[d].client_id => c = d
  /\ \A c \in Live : Placing => thread[c].client_id # acceptor.client_id

\* A client thread reads, writes and closes the socket of its own connection,
\* which is open, although handles are used again and it was told its slot only.
OwnSocket ==
  \A c \in Conns : Started(c) =>
    /\ thread[c].client_sock \in Handles
    /\ Peer(c) = c

\* No slot is lost: an active one has a thread that will clear it, or the
\* accepting thread is at it.
NoSlotLost ==
  \A i \in Ids : clients[i].active =>
    \/ \E c \in Live : thread[c].client_id = i
    \/ Placing /\ acceptor.client_id = i

\* Once a client has closed its connection, the thread that serves it comes to
\* its end and the slot is free again.
SlotsComeBack == (left \cap Live # {}) ~> (left \cap Live = {})
=============================================================================
