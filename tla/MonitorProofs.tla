--------------------------- MODULE MonitorProofs ---------------------------
(***************************************************************************)
(* For any number of slots, handles and connections, and with the window   *)
(* and other programs coming and going: the slots of the monitor server    *)
(* are never shared, never lost, and a thread's socket is always the one   *)
(* of its own connection.  The second half is about the window: its        *)
(* requests and the answers never get out of step, and what it shows never *)
(* goes back.                                                              *)
(***************************************************************************)
EXTENDS MonitorGui, TLAPS, WellFoundedInduction, NaturalsInduction

\* Connections not accepted yet are of nobody, and different from each other.
Waiting ==
  /\ \A i \in DOMAIN backlog :
       /\ thread[backlog[i]].pc = "none"
       /\ Holding => backlog[i] # acceptor.conn
  /\ \A i, j \in DOMAIN backlog : backlog[i] = backlog[j] => i = j

\* The accepting thread holds an open handle, of a connection no thread has yet.
Held ==
  Holding => /\ acceptor.conn \in Conns /\ acceptor.sock \in Handles
             /\ handle[acceptor.sock] = acceptor.conn
             /\ thread[acceptor.conn].pc = "none"

\* A slot in use is marked, and holds the handle its thread will take from it.
Marked ==
  /\ \A c \in Live : /\ thread[c].client_id \in Ids
                     /\ clients[thread[c].client_id].active
  /\ Placing => acceptor.client_id \in Ids /\ clients[acceptor.client_id].active
  /\ acceptor.pc = "spawn" => clients[acceptor.client_id].sock = acceptor.sock
  /\ \A c \in Conns : At(c, "start") =>
       /\ clients[thread[c].client_id].sock \in Handles
       /\ handle[clients[thread[c].client_id].sock] = c

\* The inductive invariant.
Inv ==
  /\ ServerTypeOK /\ Waiting /\ Held /\ Marked
  /\ OneOwner /\ OwnSocket /\ NoSlotLost

\* What the invariant is about.
tables == <<clients, acceptor, thread, handle>>

LEMMA Initially == Init => Inv
BY SizesAssumption, NamesAssumption
   DEF Init, ServerInit, Inv, ServerTypeOK, Waiting, Held, Marked, OneOwner, OwnSocket,
       NoSlotLost, Idle, NoThread, Holding, Placing, Live, Started, At, Ids, Threads

\* A connection is made: it was unused.
LEMMA ConnectKeeps ==
  ASSUME Inv, NEW c \in Conns, Unused(c), backlog' = Append(backlog, c),
         UNCHANGED <<tables, ended>>, left' \subseteq Conns
  PROVE  Inv'
<1>1. backlog \in Seq(Conns) BY DEF Inv, ServerTypeOK
<1>2. /\ DOMAIN backlog' = DOMAIN backlog \cup {Len(backlog) + 1}
      /\ backlog'[Len(backlog) + 1] = c
      /\ \A i \in DOMAIN backlog : backlog'[i] = backlog[i] /\ i # Len(backlog) + 1
  BY <1>1
<1>3. ServerTypeOK' BY <1>1 DEF Inv, ServerTypeOK, tables
<1>4. thread[c].pc = "none" /\ acceptor.conn # c BY DEF Unused, NoThread
<1>5. Waiting' BY <1>2, <1>4 DEF Inv, Waiting, Unused, tables, Holding
<1> QED BY <1>3, <1>5
        DEF Inv, Held, Marked, OneOwner, OwnSocket, NoSlotLost, tables, Holding, Placing, Live,
            Started, At, Peer

\* Steps that leave the tables and the backlog alone.
LEMMA QuietKeeps ==
  ASSUME Inv, UNCHANGED <<tables, backlog, ended>>, left' \subseteq Conns
  PROVE  Inv'
BY DEF Inv, ServerTypeOK, Waiting, Held, Marked, OneOwner, OwnSocket, NoSlotLost, tables,
       Holding, Placing, Live, Started, At, Peer

\* The slot place takes exists.
LEMMA LeastFree ==
  FreeIds # {} => \E j \in FreeIds : \A k \in FreeIds : j <= k
<1> SUFFICES ASSUME FreeIds # {} PROVE \E j \in FreeIds : \A k \in FreeIds : j <= k
  OBVIOUS
<1> DEFINE R == OpToRel(<, Nat)
<1>1. IsWellFoundedOn(R, Nat)
  BY NatLessThanWellFounded
<1>2. FreeIds \subseteq Nat
  BY SizesAssumption DEF FreeIds, Ids
<1>3. PICK j \in FreeIds : \A k \in FreeIds : ~ (<<k, j>> \in R)
  <2> HIDE DEF R
  <2> QED BY <1>1, <1>2, WFMin
<1>4. \A k \in FreeIds : ~ (k < j)
  BY <1>2, <1>3 DEF OpToRel
<1>5. \A k \in FreeIds : j <= k
  BY <1>2, <1>4
<1> QED BY <1>5

-----------------------------------------------------------------------------
(* The accepting thread *)

LEMMA AcceptKeeps == Inv /\ accept => Inv'
<1> SUFFICES ASSUME Inv, accept PROVE Inv'
  OBVIOUS
<1>1. /\ backlog \in Seq(Conns) /\ backlog # <<>>
      /\ acceptor.pc = "accept"
      /\ UNCHANGED <<clients, thread, left, ended>>
  BY DEF accept, Inv, ServerTypeOK
<1>2. PICK h \in Handles :
        /\ handle[h] = NoConn
        /\ handle' = [handle EXCEPT ![h] = Head(backlog)]
        /\ acceptor' = [pc |-> "place", conn |-> Head(backlog), sock |-> h, client_id |-> 0]
  BY DEF accept
<1>3. /\ Head(backlog) = backlog[1] /\ Head(backlog) \in Conns
      /\ thread[Head(backlog)].pc = "none"
      /\ backlog' = Tail(backlog)
      /\ backlog' \in Seq(Conns)
      /\ \A i \in DOMAIN backlog' : i + 1 \in DOMAIN backlog /\ backlog'[i] = backlog[i + 1]
      /\ 1 \in DOMAIN backlog
      /\ \A i \in DOMAIN backlog' : i \in Nat /\ i + 1 # 1
  BY <1>1 DEF accept, Inv, Waiting
<1>4. ServerTypeOK'
  BY <1>1, <1>2, <1>3 DEF Inv, ServerTypeOK
<1>5. Waiting'
  BY <1>1, <1>2, <1>3 DEF Inv, Waiting
<1>6. Held' /\ ~Placing'
  BY <1>1, <1>2, <1>3 DEF Inv, ServerTypeOK, Held, Placing
<1>7. \A g \in Handles : handle[g] # NoConn => handle'[g] = handle[g]
  BY <1>2 DEF Inv, ServerTypeOK
<1>8. Marked'
  BY <1>1, <1>2, <1>6, <1>7, NamesAssumption DEF Inv, Marked, Live, At
<1>9. OwnSocket'
  BY <1>1, <1>7, NamesAssumption DEF Inv, OwnSocket, Started, Peer
<1>10. OneOwner' /\ NoSlotLost'
  BY <1>1, <1>6 DEF Inv, OneOwner, NoSlotLost, Live, Placing
<1> QED BY <1>4, <1>5, <1>6, <1>8, <1>9, <1>10 DEF Inv

LEMMA PlaceKeeps == Inv /\ place => Inv'
<1> SUFFICES ASSUME Inv, place PROVE Inv'
  OBVIOUS
<1>1. /\ acceptor.pc = "place"
      /\ UNCHANGED <<thread, handle, backlog, left, ended>>
  BY DEF place, network
<1>2. CASE FreeIds = {}
  <2>1. acceptor' = [acceptor EXCEPT !.pc = "reject"] /\ clients' = clients
    BY <1>2 DEF place
  <2> QED BY <1>1, <2>1 DEF Inv, ServerTypeOK, Waiting, Held, Marked, OneOwner, OwnSocket,
             NoSlotLost, Holding, Placing, Live, Started, At, Peer
<1>3. CASE FreeIds # {}
  <2>1. \E j \in FreeIds : \A k \in FreeIds : j <= k
    BY <1>3, LeastFree
  <2>2. PICK i \in FreeIds :
          /\ clients' = [clients EXCEPT ![i] = [sock |-> acceptor.sock, active |-> TRUE]]
          /\ acceptor' = [acceptor EXCEPT !.pc = "spawn", !.client_id = i]
    BY <1>3, <2>1 DEF place
  <2>3. i \in Ids /\ ~clients[i].active
    BY DEF FreeIds
  <2>4. /\ acceptor'.pc = "spawn" /\ acceptor'.client_id = i
        /\ acceptor'.sock = acceptor.sock /\ acceptor'.conn = acceptor.conn
        /\ acceptor.sock \in Handles
    BY <1>1, <2>2 DEF Inv, ServerTypeOK, Held, Holding
  <2>5. /\ clients'[i].active /\ clients'[i].sock = acceptor.sock
        /\ \A j \in Ids : j # i => clients'[j] = clients[j]
    BY <2>2, <2>3 DEF Inv, ServerTypeOK
  <2>6. ServerTypeOK'
    BY <1>1, <2>2, <2>3, <2>4 DEF Inv, ServerTypeOK
  <2>7. \A c \in Live : thread[c].client_id \in Ids /\ thread[c].client_id # i
    BY <2>3 DEF Inv, Marked
  <2>8. Waiting' /\ Held'
    BY <1>1, <2>4 DEF Inv, Waiting, Held, Holding
  <2>9. Marked'
    BY <1>1, <2>3, <2>4, <2>5, <2>7 DEF Inv, Marked, Placing, Live, At
  <2>10. OneOwner'
    BY <1>1, <2>4, <2>7 DEF Inv, OneOwner, Live
  <2>11. OwnSocket'
    BY <1>1 DEF Inv, OwnSocket, Started, Peer
  <2>12. NoSlotLost'
    BY <1>1, <2>4, <2>5 DEF Inv, NoSlotLost, Placing, Live
  <2> QED BY <2>6, <2>8, <2>9, <2>10, <2>11, <2>12 DEF Inv
<1> QED BY <1>2, <1>3

LEMMA SpawnKeeps == Inv /\ spawn => Inv'
<1> SUFFICES ASSUME Inv, spawn PROVE Inv'
  OBVIOUS
<1> DEFINE c == acceptor.conn
           new == [pc |-> "start", client_id |-> acceptor.client_id,
                   client_sock |-> INVALID_SOCKET]
<1>1. /\ acceptor.pc = "spawn" /\ acceptor' = Idle
      /\ thread' = [thread EXCEPT ![c] = new]
      /\ UNCHANGED <<clients, handle, backlog, left, ended>>
  BY DEF spawn, network
<1>2. /\ c \in Conns /\ acceptor.sock \in Handles /\ handle[acceptor.sock] = c
      /\ thread[c].pc = "none"
  BY <1>1 DEF Inv, Held, Holding
<1>3. /\ thread'[c].pc = "start" /\ thread'[c].client_id = acceptor.client_id
      /\ \A d \in Conns : d # c => thread'[d] = thread[d]
  BY <1>1, <1>2 DEF Inv, ServerTypeOK
<1>4. acceptor'.pc = "accept" /\ ~Placing' /\ ~Holding'
  BY <1>1 DEF Idle, Placing, Holding
<1>5. ServerTypeOK'
  BY <1>1, <1>2 DEF Inv, ServerTypeOK, Idle, Threads
<1>6. Live' = Live \cup {c} /\ c \notin Live
  BY <1>2, <1>3 DEF Live
<1>7. Waiting'
  <2>1. \A i \in DOMAIN backlog : backlog[i] # c /\ backlog[i] \in Conns
    BY <1>1 DEF Inv, Waiting, Holding, ServerTypeOK
  <2> QED BY <1>1, <1>3, <1>4, <2>1 DEF Inv, Waiting
<1>8. Held' BY <1>4 DEF Held
<1>9. Marked'
  <2>1. acceptor.client_id \in Ids /\ clients[acceptor.client_id].active
    BY <1>1 DEF Inv, Marked, Placing
  <2>2. clients[acceptor.client_id].sock = acceptor.sock
    BY <1>1 DEF Inv, Marked
  <2> QED BY <1>1, <1>2, <1>3, <1>4, <1>6, <2>1, <2>2 DEF Inv, Marked, At, Live
<1>10. OneOwner'
  BY <1>1, <1>3, <1>4, <1>6 DEF Inv, OneOwner, Placing, Live
<1>11. OwnSocket'
  BY <1>1, <1>3 DEF Inv, OwnSocket, Started, Peer
<1>12. NoSlotLost'
  BY <1>1, <1>3, <1>4, <1>6 DEF Inv, NoSlotLost, Placing, Live
<1> QED BY <1>5, <1>7, <1>8, <1>9, <1>10, <1>11, <1>12 DEF Inv

\* A socket is closed that no thread has for its own connection.
LEMMA CloseHolds ==
  ASSUME Inv, NEW h \in Handles, handle' = [handle EXCEPT ![h] = NoConn]
  PROVE  \A g \in Handles : handle[g] # handle[h] => handle'[g] = handle[g]
BY DEF Inv, ServerTypeOK

LEMMA SpawnFailsKeeps == Inv /\ spawn_fails => Inv'
<1> SUFFICES ASSUME Inv, spawn_fails PROVE Inv'
  OBVIOUS
<1>1. /\ acceptor.pc = "spawn" /\ acceptor' = [acceptor EXCEPT !.pc = "give_back"]
      /\ handle' = [handle EXCEPT ![acceptor.sock] = NoConn]
      /\ ended' = ended \cup {handle[acceptor.sock]}
      /\ UNCHANGED <<clients, thread, backlog, left>>
  BY DEF spawn_fails, closesocket
<1>2. /\ acceptor.conn \in Conns /\ acceptor.sock \in Handles
      /\ handle[acceptor.sock] = acceptor.conn /\ thread[acceptor.conn].pc = "none"
  BY <1>1 DEF Inv, Held, Holding
<1>3. /\ acceptor'.pc = "give_back" /\ acceptor'.client_id = acceptor.client_id
      /\ Placing /\ Placing' /\ ~Holding'
  BY <1>1 DEF Inv, ServerTypeOK, Placing, Holding
<1>4. \A g \in Handles : handle[g] # acceptor.conn => handle'[g] = handle[g]
  BY <1>1, <1>2, CloseHolds
<1>5. ServerTypeOK'
  BY <1>1, <1>2 DEF Inv, ServerTypeOK
<1>6. Waiting' /\ Held'
  BY <1>1, <1>3 DEF Inv, Waiting, Held
<1>7. Marked'
  BY <1>1, <1>2, <1>3, <1>4 DEF Inv, Marked, Live, At
<1>8. OneOwner' /\ NoSlotLost'
  BY <1>1, <1>3 DEF Inv, OneOwner, NoSlotLost, Live
<1>9. OwnSocket'
  BY <1>1, <1>2, <1>4 DEF Inv, OwnSocket, Started, Peer
<1> QED BY <1>5, <1>6, <1>7, <1>8, <1>9 DEF Inv

LEMMA GiveBackKeeps == Inv /\ give_back => Inv'
<1> SUFFICES ASSUME Inv, give_back PROVE Inv'
  OBVIOUS
<1> DEFINE i == acceptor.client_id
<1>1. /\ acceptor.pc = "give_back" /\ acceptor' = Idle
      /\ clients' = [clients EXCEPT ![i].active = FALSE]
      /\ UNCHANGED <<thread, handle, backlog, left, ended>>
  BY DEF give_back, network
<1>2. i \in Ids /\ \A c \in Live : thread[c].client_id # i
  BY <1>1 DEF Inv, Marked, OneOwner, Placing
<1>3. /\ ~clients'[i].active
      /\ \A j \in Ids : j # i => clients'[j] = clients[j]
      /\ clients' \in [Ids -> [sock : Handles \cup {INVALID_SOCKET}, active : BOOLEAN]]
  BY <1>1, <1>2 DEF Inv, ServerTypeOK
<1>4. acceptor'.pc = "accept" /\ ~Placing' /\ ~Holding'
  BY <1>1 DEF Idle, Placing, Holding
<1>5. ServerTypeOK'
  BY <1>1, <1>3 DEF Inv, ServerTypeOK, Idle
<1>6. Waiting' /\ Held'
  BY <1>1, <1>4 DEF Inv, Waiting, Held
<1>7. Marked'
  BY <1>1, <1>2, <1>3, <1>4 DEF Inv, Marked, Live, At
<1>8. OneOwner' /\ OwnSocket'
  BY <1>1, <1>4 DEF Inv, OneOwner, OwnSocket, Live, Started, Peer
<1>9. NoSlotLost'
  BY <1>1, <1>3 DEF Inv, NoSlotLost, Placing, Live
<1> QED BY <1>5, <1>6, <1>7, <1>8, <1>9 DEF Inv

LEMMA RejectKeeps == Inv /\ reject => Inv'
<1> SUFFICES ASSUME Inv, reject PROVE Inv'
  OBVIOUS
<1>1. /\ acceptor.pc = "reject" /\ acceptor' = Idle
      /\ handle' = [handle EXCEPT ![acceptor.sock] = NoConn]
      /\ ended' = ended \cup {handle[acceptor.sock]}
      /\ UNCHANGED <<clients, thread, backlog, left>>
  BY DEF reject, closesocket
<1>2. /\ acceptor.conn \in Conns /\ acceptor.sock \in Handles
      /\ handle[acceptor.sock] = acceptor.conn /\ thread[acceptor.conn].pc = "none"
  BY <1>1 DEF Inv, Held, Holding
<1>3. acceptor'.pc = "accept" /\ ~Placing /\ ~Placing' /\ ~Holding'
  BY <1>1 DEF Idle, Placing, Holding
<1>4. \A g \in Handles : handle[g] # acceptor.conn => handle'[g] = handle[g]
  BY <1>1, <1>2, CloseHolds
<1>5. ServerTypeOK'
  BY <1>1, <1>2 DEF Inv, ServerTypeOK, Idle
<1>6. Waiting' /\ Held'
  BY <1>1, <1>3 DEF Inv, Waiting, Held
<1>7. Marked'
  BY <1>1, <1>2, <1>3, <1>4 DEF Inv, Marked, Live, At
<1>8. OneOwner' /\ NoSlotLost'
  BY <1>1, <1>3 DEF Inv, OneOwner, NoSlotLost, Live
<1>9. OwnSocket'
  BY <1>1, <1>2, <1>4 DEF Inv, OwnSocket, Started, Peer
<1> QED BY <1>5, <1>6, <1>7, <1>8, <1>9 DEF Inv

-----------------------------------------------------------------------------
(* A client thread *)

\* A thread goes on in its loop, or leaves it.
LEMMA LoopKeeps ==
  ASSUME Inv, NEW c \in Conns, At(c, "while") \/ At(c, "recv") \/ At(c, "read") \/ At(c, "send"),
         NEW pc \in {"while", "recv", "read", "send", "close"}, Goto(c, pc),
         UNCHANGED <<clients, acceptor, handle, backlog, left, ended>>
  PROVE  Inv'
<1>1. /\ thread'[c].pc = pc /\ thread'[c].client_id = thread[c].client_id
      /\ thread'[c].client_sock = thread[c].client_sock
      /\ \A d \in Conns : d # c => thread'[d] = thread[d]
      /\ thread' \in [Conns -> Threads]
  BY DEF Inv, ServerTypeOK, Goto, Threads
<1>2. Live' = Live /\ \A d \in Conns : Started(d)' <=> Started(d)
  BY <1>1 DEF Live, Started, At
<1>3. ServerTypeOK'
  BY <1>1 DEF Inv, ServerTypeOK
<1>4. Waiting' /\ Held'
  <2>1. thread[c].pc # "none" BY DEF At
  <2> QED BY <1>1, <2>1 DEF Inv, ServerTypeOK, Waiting, Held, Holding
<1>5. Marked'
  BY <1>1, <1>2 DEF Inv, Marked, Live, Placing, At
<1>6. OneOwner' /\ NoSlotLost'
  BY <1>1, <1>2 DEF Inv, OneOwner, NoSlotLost, Live, Placing
<1>7. OwnSocket'
  BY <1>1, <1>2 DEF Inv, OwnSocket, Peer
<1> QED BY <1>3, <1>4, <1>5, <1>6, <1>7 DEF Inv

LEMMA StartKeeps == ASSUME NEW c \in Conns PROVE Inv /\ start(c) => Inv'
<1> SUFFICES ASSUME Inv, start(c) PROVE Inv'
  OBVIOUS
<1> DEFINE s == clients[thread[c].client_id].sock
<1>1. /\ thread[c].pc = "start"
      /\ thread' = [thread EXCEPT ![c] =
           [pc |-> "while", client_id |-> thread[c].client_id, client_sock |-> s]]
      /\ UNCHANGED <<clients, acceptor, handle, backlog, left, ended>>
  BY DEF start, network, At
<1>2. s \in Handles /\ handle[s] = c /\ thread[c].client_id \in Ids
  BY <1>1 DEF Inv, Marked, At, Live
<1>3. /\ thread'[c].pc = "while" /\ thread'[c].client_id = thread[c].client_id
      /\ thread'[c].client_sock = s
      /\ \A d \in Conns : d # c => thread'[d] = thread[d]
  BY <1>1 DEF Inv, ServerTypeOK
<1>4. Live' = Live
  BY <1>1, <1>3 DEF Live
<1>5. ServerTypeOK'
  BY <1>1, <1>2 DEF Inv, ServerTypeOK, Threads
<1>6. Waiting' /\ Held'
  BY <1>1, <1>3 DEF Inv, ServerTypeOK, Waiting, Held, Holding
<1>7. Marked'
  BY <1>1, <1>3, <1>4 DEF Inv, Marked, Live, Placing, At
<1>8. OneOwner' /\ NoSlotLost'
  BY <1>1, <1>3, <1>4 DEF Inv, OneOwner, NoSlotLost, Live, Placing
<1>9. OwnSocket'
  BY <1>1, <1>2, <1>3 DEF Inv, OwnSocket, Started, Peer
<1> QED BY <1>5, <1>6, <1>7, <1>8, <1>9 DEF Inv

LEMMA CloseKeeps == ASSUME NEW c \in Conns PROVE Inv /\ close(c) => Inv'
<1> SUFFICES ASSUME Inv, close(c) PROVE Inv'
  OBVIOUS
<1> DEFINE h == thread[c].client_sock
<1>1. /\ thread[c].pc = "close" /\ h \in Handles
      /\ Goto(c, "clear")
      /\ handle' = [handle EXCEPT ![h] = NoConn]
      /\ ended' = ended \cup {handle[h]}
      /\ UNCHANGED <<clients, acceptor, backlog, left>>
  BY DEF close, closesocket, At
<1>2. handle[h] = c
  BY <1>1 DEF Inv, OwnSocket, Started, Peer
<1>3. /\ thread'[c].pc = "clear" /\ thread'[c].client_id = thread[c].client_id
      /\ \A d \in Conns : d # c => thread'[d] = thread[d]
      /\ thread' \in [Conns -> Threads]
  BY <1>1 DEF Inv, ServerTypeOK, Goto, Threads
<1>4. Live' = Live
  BY <1>1, <1>3 DEF Live
<1>5. \A g \in Handles : handle[g] # c => handle'[g] = handle[g]
  BY <1>1, <1>2, CloseHolds
<1>6. ServerTypeOK'
  BY <1>1, <1>2, <1>3 DEF Inv, ServerTypeOK
<1>7. Waiting' /\ Held'
  BY <1>1, <1>3, <1>5 DEF Inv, ServerTypeOK, Waiting, Held, Holding
<1>8. Marked'
  BY <1>1, <1>3, <1>4, <1>5 DEF Inv, Marked, Live, Placing, At
<1>9. OneOwner' /\ NoSlotLost'
  BY <1>1, <1>3, <1>4 DEF Inv, OneOwner, NoSlotLost, Live, Placing
<1>10. OwnSocket'
  BY <1>1, <1>3, <1>5 DEF Inv, OwnSocket, Started, Peer
<1> QED BY <1>6, <1>7, <1>8, <1>9, <1>10 DEF Inv

LEMMA ClearKeeps == ASSUME NEW c \in Conns PROVE Inv /\ clear(c) => Inv'
<1> SUFFICES ASSUME Inv, clear(c) PROVE Inv'
  OBVIOUS
<1> DEFINE i == thread[c].client_id
<1>1. /\ thread[c].pc = "clear"
      /\ clients' = [clients EXCEPT ![i] = [sock |-> INVALID_SOCKET, active |-> FALSE]]
      /\ thread' = [thread EXCEPT ![c] = [NoThread EXCEPT !.pc = "done"]]
      /\ UNCHANGED <<acceptor, handle, backlog, left, ended>>
  BY DEF clear, network, At
<1>2. c \in Live /\ i \in Ids
  BY <1>1 DEF Live, Inv, Marked
<1>3. /\ thread'[c].pc = "done" /\ thread' \in [Conns -> Threads]
      /\ \A d \in Conns : d # c => thread'[d] = thread[d]
  BY <1>1 DEF Inv, ServerTypeOK, NoThread, Threads
<1>4. Live' = Live \ {c}
  BY <1>3 DEF Live
<1>5. /\ \A d \in Live' : thread'[d].client_id = thread[d].client_id
                          /\ thread[d].client_id # i
      /\ Placing => acceptor.client_id # i
  BY <1>2, <1>3, <1>4 DEF Inv, OneOwner, Live
<1>6. /\ ~clients'[i].active
      /\ \A j \in Ids : j # i => clients'[j] = clients[j]
      /\ clients' \in [Ids -> [sock : Handles \cup {INVALID_SOCKET}, active : BOOLEAN]]
  BY <1>1, <1>2 DEF Inv, ServerTypeOK
<1>7. ServerTypeOK'
  BY <1>1, <1>3, <1>6 DEF Inv, ServerTypeOK
<1>8. Waiting' /\ Held'
  BY <1>1, <1>3 DEF Inv, ServerTypeOK, Waiting, Held, Holding
<1>9. Marked'
  <2>1. \A d \in Conns : At(d, "start")' => d \in Live' /\ d # c /\ At(d, "start")
    BY <1>3 DEF At, Live
  <2>2. acceptor.pc = "spawn" => Placing
    BY DEF Placing
  <2>3. \A d \in Live' : d \in Live /\ d # c
    BY <1>4
  <2>4. \A d \in Live : thread[d].client_id \in Ids
    BY DEF Inv, Marked
  <2> QED BY <1>1, <1>3, <1>5, <1>6, <2>1, <2>2, <2>3, <2>4 DEF Inv, Marked, Placing, At
<1>10. OneOwner'
  BY <1>1, <1>3, <1>4 DEF Inv, OneOwner, Live, Placing
<1>11. OwnSocket'
  BY <1>1, <1>3 DEF Inv, OwnSocket, Started, Peer
<1>12. NoSlotLost'
  BY <1>1, <1>3, <1>4, <1>6 DEF Inv, NoSlotLost, Placing
<1> QED BY <1>7, <1>8, <1>9, <1>10, <1>11, <1>12 DEF Inv

LEMMA HandlerKeeps == ASSUME NEW c \in Conns PROVE Inv /\ client_handler(c) => Inv'
<1> SUFFICES ASSUME Inv, client_handler(c) PROVE Inv'
  OBVIOUS
<1>1. CASE start(c) BY <1>1, StartKeeps
<1>2. CASE while(c)
  <2> DEFINE pc == IF clients[thread[c].client_id].active THEN "recv" ELSE "close"
  <2>1. pc \in {"while", "recv", "read", "send", "close"} BY Zenon
  <2>2. Goto(c, pc) /\ At(c, "while")
        /\ UNCHANGED <<clients, acceptor, handle, backlog, left, ended>>
    BY <1>2 DEF while, network
  <2> HIDE DEF pc
  <2> QED BY <2>1, <2>2, LoopKeeps
<1>3. CASE recv(c) BY <1>3, LoopKeeps DEF recv
<1>4. CASE recv_end(c)
  <2>1. Goto(c, "close") /\ At(c, "recv")
        /\ UNCHANGED <<clients, acceptor, handle, backlog, left, ended>>
    BY <1>4 DEF recv_end, network
  <2> QED BY <2>1, LoopKeeps
<1>5. CASE protocol_stats_to_json(c)
  <2> DEFINE pc == IF \E k \in Counters : report'[c][k] = Unread THEN "read" ELSE "send"
  <2>1. pc \in {"while", "recv", "read", "send", "close"} BY Zenon
  <2>2. Goto(c, pc) /\ At(c, "read")
        /\ UNCHANGED <<clients, acceptor, handle, backlog, left, ended>>
    BY <1>5 DEF protocol_stats_to_json, network
  <2> HIDE DEF pc
  <2> QED BY <2>1, <2>2, LoopKeeps
<1>6. CASE send(c) BY <1>6, LoopKeeps DEF send
<1>7. CASE close(c) BY <1>7, CloseKeeps
<1>8. CASE clear(c) BY <1>8, ClearKeeps
<1> QED BY <1>1, <1>2, <1>3, <1>4, <1>5, <1>6, <1>7, <1>8 DEF client_handler

LEMMA ServerKeeps == Inv /\ ServerNext => Inv'
<1> SUFFICES ASSUME Inv, ServerNext PROVE Inv'
  OBVIOUS
<1>1. left \subseteq Conns
  BY DEF Inv, ServerTypeOK
<1>2. CASE arp_init \/ protocol_stats_init \/ monitor_server_init \/ \E k \in Counters : Count(k)
  <2>1. UNCHANGED <<tables, backlog, ended, left>>
    BY <1>2 DEF arp_init, protocol_stats_init, monitor_server_init, Count, server, network, tables
  <2> QED BY <1>1, <2>1, QuietKeeps
<1>3. CASE accept BY <1>3, AcceptKeeps
<1>4. CASE place BY <1>4, PlaceKeeps
<1>5. CASE spawn BY <1>5, SpawnKeeps
<1>6. CASE spawn_fails BY <1>6, SpawnFailsKeeps
<1>7. CASE give_back BY <1>7, GiveBackKeeps
<1>8. CASE reject BY <1>8, RejectKeeps
<1>9. CASE \E c \in Conns : client_handler(c) BY <1>9, HandlerKeeps
<1> QED BY <1>2, <1>3, <1>4, <1>5, <1>6, <1>7, <1>8, <1>9 DEF ServerNext

-----------------------------------------------------------------------------
(* The window and the other programs *)

\* Whoever leaves, the set of those who left stays one of connections.
LEMMA LeaveTyped == ASSUME Inv, NEW s, Leave(s) PROVE left' \subseteq Conns
BY DEF Leave, Inv, ServerTypeOK

LEMMA WindowKeeps ==
  Inv /\ (auto_connect \/ toggle_connection \/ Window \/ WindowLocks) => Inv'
<1> SUFFICES ASSUME Inv, auto_connect \/ toggle_connection \/ Window \/ WindowLocks PROVE Inv'
  OBVIOUS
<1>1. left \subseteq Conns
  BY DEF Inv, ServerTypeOK
<1>2. CASE auto_connect \/ toggle_connection \/ Window \/ OutOfConns
  <2>1. UNCHANGED <<tables, backlog, ended, left>>
    BY <1>2 DEF auto_connect, toggle_connection, Window, clear_flag, OutOfConns, serverVars,
                server, network, tables
  <2> QED BY <1>1, <2>1, QuietKeeps
<1>3. CASE Refused \/ disconnect
  <2>1. Leave(sock) /\ UNCHANGED <<tables, backlog, ended>>
    BY <1>3 DEF Refused, disconnect, server, tables
  <2> QED BY <2>1, QuietKeeps, LeaveTyped
<1>4. CASE \E c \in Ours : Connected(c)
  <2>1. PICK c \in Ours : Connected(c) BY <1>4
  <2>2. /\ c \in Conns /\ Unused(c) /\ backlog' = Append(backlog, c) /\ Leave(sock)
        /\ UNCHANGED <<tables, ended>>
    BY <2>1, ConnsAssumption DEF Connected, server, tables
  <2> QED BY <2>2, ConnectKeeps, LeaveTyped
<1> QED BY <1>2, <1>3, <1>4 DEF WindowLocks

LEMMA UpdateKeeps == Inv /\ (Ask \/ Update) => Inv'
<1> SUFFICES ASSUME Inv, Ask \/ Update PROVE Inv'
  OBVIOUS
<1>1. left \subseteq Conns
  BY DEF Inv, ServerTypeOK
<1>2. UNCHANGED <<tables, backlog, ended, left>>
  <2>1. CASE Ask BY <2>1 DEF Ask, server, tables
  <2>2. CASE Update
    BY <2>2 DEF Update, Look, Nap, Receive, TakeLine, ReceiveEnd, Show, DropFlag, DropBuffer,
                serverVars, server, network, tables
  <2> QED BY <2>1, <2>2
<1> QED BY <1>1, <1>2, QuietKeeps

LEMMA OthersKeep == ASSUME NEW c \in Others PROVE Inv /\ (OtherConnects(c) \/ OtherLeaves(c)) => Inv'
<1> SUFFICES ASSUME Inv, OtherConnects(c) \/ OtherLeaves(c) PROVE Inv'
  OBVIOUS
<1>1. c \in Conns /\ left \subseteq Conns
  BY ConnsAssumption DEF Inv, ServerTypeOK
<1>2. CASE OtherConnects(c)
  <2>1. Unused(c) /\ backlog' = Append(backlog, c) /\ UNCHANGED <<tables, ended, left>>
    BY <1>2 DEF OtherConnects, server, tables
  <2> QED BY <1>1, <2>1, ConnectKeeps
<1>3. CASE OtherLeaves(c)
  <2>1. Leave(c) /\ UNCHANGED <<tables, backlog, ended>>
    BY <1>3 DEF OtherLeaves, server, tables
  <2> QED BY <2>1, QuietKeeps, LeaveTyped
<1> QED BY <1>2, <1>3

-----------------------------------------------------------------------------

\* The invariant holds in every behaviour, for any number of slots, handles,
\* connections and counters.
THEOREM Invariance == Spec => []Inv
<1>1. Inv /\ [Next]_vars => Inv'
  <2> SUFFICES ASSUME Inv, [Next]_vars PROVE Inv'
    OBVIOUS
  <2>1. CASE ServerNext /\ UNCHANGED gui BY <2>1, ServerKeeps
  <2>2. CASE auto_connect \/ toggle_connection \/ Window \/ WindowLocks BY <2>2, WindowKeeps
  <2>3. CASE Ask \/ Update BY <2>3, UpdateKeeps
  <2>4. CASE \E c \in Others : OtherConnects(c) \/ OtherLeaves(c) BY <2>4, OthersKeep
  <2>5. CASE UNCHANGED vars
    <3>1. UNCHANGED <<tables, backlog, ended, left>>
      BY <2>5 DEF vars, serverVars, server, network, tables
    <3> QED BY <3>1, QuietKeeps DEF Inv, ServerTypeOK
  <2> QED BY <2>1, <2>2, <2>3, <2>4, <2>5 DEF Next
<1> QED BY <1>1, Initially, PTL DEF Spec

\* No two client threads ever have the same slot, nor has one the slot the
\* accepting thread is about to give away (monitor_server.c, clients).
THEOREM SlotsNotShared == Spec => []OneOwner
<1>1. Inv => OneOwner BY DEF Inv
<1> QED BY <1>1, Invariance, PTL

\* A client thread reads, writes and closes the open socket of its own connection,
\* which it learns from its slot only, although handles are used again.
THEOREM SocketsOwn == Spec => []OwnSocket
<1>1. Inv => OwnSocket BY DEF Inv
<1> QED BY <1>1, Invariance, PTL

\* An active slot has a thread that will clear it, or the accepting thread at it,
\* also when CreateThread fails.
THEOREM SlotsKept == Spec => []NoSlotLost
<1>1. Inv => NoSlotLost BY DEF Inv
<1> QED BY <1>1, Invariance, PTL

-----------------------------------------------------------------------------
(* The window's conversation: one request under way at a time *)

Working(c) == thread[c].pc \in {"read", "send"}
Counts == 0..(MaxCount + 1)

TalkTyped ==
  /\ boot \in {"arp_init", "protocol_stats_init", "monitor_server_init", "polling"}
  /\ stats \in [Counters -> Counts] /\ last_stats \in [Counters -> Counts]
  /\ report \in [Conns -> [Counters -> Counts \cup {Unread}]]
  /\ to_server = [c \in Conns |-> to_server[c]] /\ to_client = [c \in Conns |-> to_client[c]]
  /\ sock \in Ours \cup {None, Unconnected} /\ connected \in BOOLEAN
  /\ sock_lock = IF update \in {"recv", "nap"} THEN "update" ELSE "free"

\* The server closes a connection when the client has left it, or when it was
\* never given to a thread.
Closed ==
  /\ \A i \in DOMAIN backlog : backlog[i] \notin ended
  /\ Holding => acceptor.conn \notin ended
  /\ acceptor.pc = "give_back" => acceptor.conn \in ended
  /\ acceptor.pc = "accept" => acceptor.conn = NoConn
  /\ \A c \in Conns : Started(c) \/ At(c, "start") => c \notin ended
  /\ \A c \in Conns : thread[c].pc \in {"close", "clear", "done"} => c \in left

\* Nothing is under way on a connection nobody has made.
Fresh == \A c \in Conns : Unused(c) => to_server[c] = <<>> /\ to_client[c] = <<>>

\* A report is complete when it is sent, and begun anew for the next request.
Drafts ==
  \A c \in Conns :
    /\ ~Working(c) => report[c] = NothingRead
    /\ At(c, "send") => \A k \in Counters : report[c][k] # Unread

\* Before the stack listens the window has no connection and has shown nothing.
Booting == boot # "polling" => sock \notin Conns /\ update # "show" /\ last_stats = Zero

\* The window's connection was made and not left; a thread that waits has one.
OwnConn ==
  /\ sock \in Conns => sock \notin left /\ ~Unused(sock)
  /\ update = "recv" => sock \in Conns

Rs == [Counters -> Counts]
Fits(r) == \A k \in Counters : last_stats[k] <= r[k] /\ r[k] <= stats[k]

\* The four states of a request: it is under way, its answer is being put
\* together, the answer is under way or partly read, and the server is gone.
Asked(s) ==
  /\ to_server[s] = <<"GET_STATS">> /\ to_client[s] = <<>> /\ recv_buffer = <<>>
  /\ ~Working(s)
Composing(s) ==
  /\ to_server[s] = <<>> /\ to_client[s] = <<>> /\ recv_buffer = <<>>
  /\ Working(s)
  /\ \A k \in Counters : report[s][k] # Unread => /\ last_stats[k] <= report[s][k]
                                                  /\ report[s][k] <= stats[k]
Split(r, s) ==
  \/ recv_buffer = <<>> /\ to_client[s] = Line(r)
  \/ recv_buffer = <<<<"head", r>>>> /\ to_client[s] = <<<<"tail", r>>>>
  \/ recv_buffer = Line(r) /\ to_client[s] = <<>>
Answering(s) ==
  /\ to_server[s] = <<>> /\ ~Working(s)
  /\ \E r \in Rs : Fits(r) /\ Split(r, s)
Over(s) ==
  /\ s \in ended /\ to_client[s] = <<>> /\ recv_buffer = <<>>
  /\ ~Working(s)

\* No request is under way.
Quiet(s) ==
  /\ s \notin ended => to_server[s] = <<>>
  /\ to_client[s] = <<>> /\ ~Working(s)

Talking ==
  /\ \A k \in Counters : last_stats[k] <= stats[k]
  /\ update = "recv" => Asked(sock) \/ Composing(sock) \/ Answering(sock) \/ Over(sock)
  /\ update # "recv" => recv_buffer = <<>> /\ (sock \in Conns => Quiet(sock))
  /\ update = "show" => \E r \in Rs : Fits(r) /\ response = Line(r)

Talk == TalkTyped /\ Closed /\ Fresh /\ Drafts /\ Booting /\ OwnConn /\ Talking

LEMMA TalkInitially == Init => Talk
<1> SUFFICES ASSUME Init PROVE Talk
  OBVIOUS
<1>1. \A c \in Conns : thread[c] = NoThread /\ thread[c].pc = "none"
  BY DEF Init, ServerInit, NoThread
<1>2. TalkTyped
  <2>1. Zero \in [Counters -> Counts] BY SizesAssumption DEF Zero, Counts
  <2>2. report \in [Conns -> [Counters -> Counts \cup {Unread}]]
    BY DEF Init, ServerInit, NothingRead
  <2>3. to_server = [c \in Conns |-> to_server[c]] /\ to_client = [c \in Conns |-> to_client[c]]
    BY DEF Init, ServerInit
  <2>4. sock_lock = IF update \in {"recv", "nap"} THEN "update" ELSE "free"
    BY DEF Init
  <2> QED BY <2>1, <2>2, <2>3, <2>4 DEF Init, ServerInit, TalkTyped
<1>3. Closed
  BY <1>1 DEF Init, ServerInit, Closed, Idle, Holding, Started, At
<1>4. Fresh /\ Drafts
  BY <1>1 DEF Init, ServerInit, Fresh, Drafts, At
<1>5. Booting /\ OwnConn /\ Talking
  BY SocketNamesAssumption DEF Init, ServerInit, Booting, OwnConn, Talking, Zero
<1> QED BY <1>2, <1>3, <1>4, <1>5 DEF Talk

\* What the server may do to a connection without the window noticing.
Untouched(s) ==
  /\ report'[s] = report[s] /\ to_client'[s] = to_client[s]
  /\ Working(s)' <=> Working(s)
  /\ to_server'[s] = to_server[s] \/ (to_server'[s] = <<>> /\ s \in ended')
Grown == \A k \in Counters : stats[k] <= stats'[k]

LEMMA FitsStays ==
  ASSUME TalkTyped, TalkTyped', Grown, last_stats' = last_stats, NEW r \in Rs, Fits(r)
  PROVE  Fits(r)'
BY SizesAssumption DEF TalkTyped, Grown, Fits, Rs, Counts

LEMMA TalkingStays ==
  ASSUME TalkTyped, TalkTyped', Talking, OwnConn, Grown, sock \in Conns => Untouched(sock),
         ended \subseteq ended',
         UNCHANGED <<update, sock, recv_buffer, response, last_stats>>
  PROVE  Talking'
<1>1. \A k \in Counters : last_stats'[k] <= stats'[k]
  BY SizesAssumption DEF TalkTyped, Grown, Talking, Counts
<1>2. ASSUME update = "recv"
      PROVE  Asked(sock)' \/ Composing(sock)' \/ Answering(sock)' \/ Over(sock)'
  <2>1. Untouched(sock)
    BY <1>2 DEF OwnConn
  <2>2. CASE Asked(sock)
    BY <2>1, <2>2 DEF Untouched, Asked, Over
  <2>3. CASE Composing(sock)
    <3>1. sock \in Conns
      BY <1>2 DEF OwnConn
    <3>2. \A k \in Counters : stats[k] \in Int /\ stats'[k] \in Int /\ report[sock][k] \in Int
      BY <3>1, SizesAssumption DEF TalkTyped, Counts, Unread
    <3>3. \A k \in Counters : report[sock][k] # Unread => last_stats[k] <= report[sock][k]
                                                        /\ report[sock][k] <= stats'[k]
      BY <2>3, <3>2 DEF Composing, Grown
    <3> QED BY <2>1, <2>3, <3>3 DEF Untouched, Composing
  <2>4. CASE Answering(sock)
    <3>1. PICK r \in Rs : Fits(r) /\ Split(r, sock) BY <2>4 DEF Answering
    <3>2. Fits(r)' BY <3>1, FitsStays
    <3>3. Split(r, sock)' BY <2>1, <3>1 DEF Split, Untouched
    <3>4. Rs' = Rs BY DEF Rs, Counts
    <3> QED BY <2>1, <2>4, <3>2, <3>3, <3>4 DEF Untouched, Answering
  <2>5. CASE Over(sock)
    BY <2>1, <2>5 DEF Untouched, Over
  <2> QED BY <1>2, <2>2, <2>3, <2>4, <2>5 DEF Talking
<1>3. ASSUME update # "recv", sock \in Conns PROVE Quiet(sock)'
  BY <1>3 DEF Talking, Quiet, Untouched
<1>4. ASSUME update = "show" PROVE \E r \in Rs : Fits(r)' /\ response = Line(r)
  <2>1. PICK r \in Rs : Fits(r) /\ response = Line(r) BY <1>4 DEF Talking
  <2>2. Fits(r)' BY <2>1, FitsStays
  <2> QED BY <2>1, <2>2
<1> QED BY <1>1, <1>2, <1>3, <1>4 DEF Talking, Rs, Counts

\* A connection that was made is never unused again.
UsedStays == \A c \in Conns : Unused(c)' => Unused(c)

LEMMA FreshStays ==
  ASSUME Fresh, UsedStays,
         \A c \in Conns : ~Unused(c) \/ (/\ to_server'[c] \in {to_server[c], <<>>}
                                         /\ to_client'[c] \in {to_client[c], <<>>})
  PROVE  Fresh'
BY DEF Fresh, UsedStays

LEMMA UsedStaysIf ==
  ASSUME left \subseteq left', ended \subseteq ended',
         \A c \in Conns : thread[c] # NoThread => thread'[c] # NoThread,
         \A c \in Conns : acceptor.conn = c =>
            acceptor'.conn = c \/ thread'[c] # NoThread \/ c \in ended',
         \A c \in Conns : (\E i \in DOMAIN backlog : backlog[i] = c) =>
            (\E i \in DOMAIN backlog' : backlog'[i] = c) \/ acceptor'.conn = c
  PROVE  UsedStays
BY DEF UsedStays, Unused

\* Steps of the server that leave the counters and the reports alone.
LEMMA ServerTalks ==
  ASSUME Talk, UNCHANGED <<boot, stats, report, to_client, left, gui>>, UsedStays, Closed',
         ended \subseteq ended',
         to_server' = [c \in Conns |-> to_server'[c]],
         \A c \in Conns : to_server'[c] = to_server[c] \/ (to_server'[c] = <<>> /\ c \in ended'),
         \A c \in Conns : Working(c)' <=> Working(c),
         \A c \in Conns : At(c, "send")' <=> At(c, "send")
  PROVE  Talk'
<1>1. TalkTyped'
  BY DEF Talk, TalkTyped, gui, Counts
<1>2. Fresh'
  BY DEF Talk, Fresh, UsedStays
<1>3. Drafts'
  BY DEF Talk, Drafts, NothingRead
<1>4. Booting' /\ OwnConn'
  BY DEF Talk, Booting, OwnConn, UsedStays, gui, Zero
<1>5. sock \in Conns => Untouched(sock)
  <2>1. sock' = sock BY DEF gui
  <2> QED BY <2>1 DEF Untouched, Working
<1>6. Grown
  BY DEF Talk, TalkTyped, Grown, Counts
<1>7. Talking'
  BY <1>1, <1>5, <1>6, TalkingStays DEF Talk, gui
<1> QED BY <1>1, <1>2, <1>3, <1>4, <1>7 DEF Talk

\* The accepting thread and its connection, whichever it closes.
LEMMA ClosingTalks ==
  ASSUME Talk, NEW h \in Handles, closesocket(h), NEW c \in Conns, handle[h] = c
  PROVE  /\ ended' = ended \cup {c}
         /\ to_server' = [d \in Conns |-> to_server'[d]]
         /\ \A d \in Conns : to_server'[d] = to_server[d] \/ (to_server'[d] = <<>> /\ d \in ended')
BY DEF closesocket, Talk, TalkTyped

LEMMA AcceptTalks == Inv /\ Talk /\ accept /\ UNCHANGED gui => Talk'
<1> SUFFICES ASSUME Inv, Talk, accept, UNCHANGED gui PROVE Talk'
  OBVIOUS
<1>1. /\ backlog \in Seq(Conns) /\ backlog # <<>> /\ acceptor.pc = "accept"
      /\ UNCHANGED <<counters, thread, report, to_server, to_client, left, ended>>
  BY DEF accept, Inv, ServerTypeOK
<1>2. acceptor'.pc = "place" /\ acceptor'.conn = Head(backlog) /\ backlog' = Tail(backlog)
  BY DEF accept
<1>3. /\ Head(backlog) = backlog[1] /\ 1 \in DOMAIN backlog
      /\ \A i \in DOMAIN backlog' : i + 1 \in DOMAIN backlog /\ backlog'[i] = backlog[i + 1]
      /\ \A i \in DOMAIN backlog : i = 1 \/ (i - 1 \in DOMAIN backlog' /\ backlog'[i - 1] = backlog[i])
  BY <1>1, <1>2
<1>4. Closed'
  BY <1>1, <1>2, <1>3 DEF Talk, Closed, Holding, Started, At
<1>5. acceptor.conn \notin Conns
  BY <1>1, NamesAssumption DEF Talk, Closed
<1>6. UsedStays
  BY <1>1, <1>2, <1>3, <1>5, UsedStaysIf
<1>7. \A c \in Conns : (Working(c)' <=> Working(c)) /\ (At(c, "send")' <=> At(c, "send"))
  BY <1>1 DEF Working, At
<1>8. to_server = [c \in Conns |-> to_server[c]]
  BY DEF Talk, TalkTyped
<1> QED BY <1>1, <1>4, <1>6, <1>7, <1>8, ServerTalks DEF counters

LEMMA PlaceTalks == Inv /\ Talk /\ place /\ UNCHANGED gui => Talk'
<1> SUFFICES ASSUME Inv, Talk, place, UNCHANGED gui PROVE Talk'
  OBVIOUS
<1>1. /\ acceptor.pc = "place"
      /\ UNCHANGED <<counters, thread, report, backlog, to_server, to_client, left, ended>>
  BY DEF place, network
<1>2. acceptor'.pc \in {"reject", "spawn"} /\ acceptor'.conn = acceptor.conn
  BY DEF place, Inv, ServerTypeOK
<1>3. Closed'
  BY <1>1, <1>2 DEF Talk, Closed, Holding, Started, At
<1>4. UsedStays
  BY <1>1, <1>2, UsedStaysIf
<1>5. \A c \in Conns : (Working(c)' <=> Working(c)) /\ (At(c, "send")' <=> At(c, "send"))
  BY <1>1 DEF Working, At
<1>6. to_server = [c \in Conns |-> to_server[c]]
  BY DEF Talk, TalkTyped
<1> QED BY <1>1, <1>3, <1>4, <1>5, <1>6, ServerTalks DEF counters

LEMMA SpawnTalks == Inv /\ Talk /\ spawn /\ UNCHANGED gui => Talk'
<1> SUFFICES ASSUME Inv, Talk, spawn, UNCHANGED gui PROVE Talk'
  OBVIOUS
<1> DEFINE c == acceptor.conn
<1>1. /\ acceptor.pc = "spawn" /\ acceptor' = Idle
      /\ UNCHANGED <<counters, report, backlog, to_server, to_client, left, ended>>
  BY DEF spawn, network
<1>2. c \in Conns /\ thread[c].pc = "none" /\ c \notin ended
  BY <1>1 DEF Inv, Held, Holding, Talk, Closed
<1>3. thread'[c].pc = "start" /\ \A d \in Conns : d # c => thread'[d] = thread[d]
  BY <1>2 DEF spawn, Inv, ServerTypeOK
<1>4. Closed'
  BY <1>1, <1>2, <1>3 DEF Talk, Closed, Holding, Idle, Started, At
<1>5. thread'[c] # NoThread
  BY <1>3 DEF NoThread
<1>6. UsedStays
  BY <1>1, <1>2, <1>3, <1>5, UsedStaysIf
<1>7. \A d \in Conns : (Working(d)' <=> Working(d)) /\ (At(d, "send")' <=> At(d, "send"))
  BY <1>2, <1>3 DEF Working, At
<1>8. to_server = [d \in Conns |-> to_server[d]]
  BY DEF Talk, TalkTyped
<1> QED BY <1>1, <1>4, <1>6, <1>7, <1>8, ServerTalks DEF counters

\* CreateThread fails, or no slot is free.
LEMMA NoThreadTalks == Inv /\ Talk /\ (spawn_fails \/ reject) /\ UNCHANGED gui => Talk'
<1> SUFFICES ASSUME Inv, Talk, spawn_fails \/ reject, UNCHANGED gui PROVE Talk'
  OBVIOUS
<1> DEFINE c == acceptor.conn
<1>1. /\ Holding /\ closesocket(acceptor.sock)
      /\ UNCHANGED <<counters, thread, report, backlog, to_client, left>>
  BY DEF spawn_fails, reject, Holding
<1>2. /\ c \in Conns /\ thread[c].pc = "none"
      /\ acceptor.sock \in Handles /\ handle[acceptor.sock] = c
  BY <1>1 DEF Inv, Held
<1>3. \/ acceptor'.pc = "give_back" /\ acceptor'.conn = c
      \/ acceptor'.pc = "accept" /\ acceptor'.conn = NoConn
  BY DEF spawn_fails, reject, Idle, Inv, ServerTypeOK
<1>4. /\ ended' = ended \cup {c}
      /\ to_server' = [d \in Conns |-> to_server'[d]]
      /\ \A d \in Conns : to_server'[d] = to_server[d] \/ (to_server'[d] = <<>> /\ d \in ended')
  BY <1>1, <1>2, ClosingTalks
<1>5. Closed'
  BY <1>1, <1>2, <1>3, <1>4 DEF Talk, Closed, Holding, Started, At, Inv, Waiting
<1>6. UsedStays
  BY <1>1, <1>4, UsedStaysIf
<1>7. \A d \in Conns : (Working(d)' <=> Working(d)) /\ (At(d, "send")' <=> At(d, "send"))
  BY <1>1 DEF Working, At
<1> QED BY <1>1, <1>4, <1>5, <1>6, <1>7, ServerTalks DEF counters

LEMMA GiveBackTalks == Inv /\ Talk /\ give_back /\ UNCHANGED gui => Talk'
<1> SUFFICES ASSUME Inv, Talk, give_back, UNCHANGED gui PROVE Talk'
  OBVIOUS
<1>1. /\ acceptor.pc = "give_back" /\ acceptor' = Idle
      /\ UNCHANGED <<counters, thread, report, backlog, to_server, to_client, left, ended>>
  BY DEF give_back, network
<1>2. Closed'
  BY <1>1 DEF Talk, Closed, Holding, Idle, Started, At
<1>3. acceptor.conn \in ended
  BY <1>1 DEF Talk, Closed
<1>4. UsedStays
  BY <1>1, <1>3, UsedStaysIf
<1>5. \A c \in Conns : (Working(c)' <=> Working(c)) /\ (At(c, "send")' <=> At(c, "send"))
  BY <1>1 DEF Working, At
<1>6. to_server = [c \in Conns |-> to_server[c]]
  BY DEF Talk, TalkTyped
<1> QED BY <1>1, <1>2, <1>4, <1>5, <1>6, ServerTalks DEF counters

\* A client thread goes on with no request in its hands.
LEMMA ThreadTalks ==
  ASSUME Inv, Talk, NEW c \in Conns, UNCHANGED <<counters, acceptor, report, backlog, to_client,
                                                 left, gui>>,
         \A d \in Conns : d # c => thread'[d] = thread[d],
         thread'[c].pc # "none", ~Working(c), ~Working(c)',
         ended \subseteq ended',
         to_server' = [d \in Conns |-> to_server'[d]],
         \A d \in Conns : to_server'[d] = to_server[d] \/ (to_server'[d] = <<>> /\ d \in ended'),
         Closed'
  PROVE  Talk'
<1>1. \A d \in Conns : thread[d] # NoThread => thread'[d] # NoThread
  BY DEF NoThread
<1>2. UsedStays
  BY <1>1, UsedStaysIf
<1>3. \A d \in Conns : (Working(d)' <=> Working(d)) /\ (At(d, "send")' <=> At(d, "send"))
  BY DEF Working, At
<1> QED BY <1>2, <1>3, ServerTalks DEF counters

LEMMA StartTalks ==
  ASSUME NEW c \in Conns
  PROVE  Inv /\ Talk /\ (start(c) \/ while(c) \/ recv_end(c) \/ clear(c)) /\ UNCHANGED gui => Talk'
<1> SUFFICES ASSUME Inv, Talk, start(c) \/ while(c) \/ recv_end(c) \/ clear(c), UNCHANGED gui
             PROVE  Talk'
  OBVIOUS
<1>1. UNCHANGED <<counters, acceptor, report, backlog, to_server, to_client, left, ended>>
  BY DEF start, while, recv_end, clear, network
<1>2. thread \in [Conns -> Threads]
  BY DEF Inv, ServerTypeOK
<1>3. /\ \A d \in Conns : d # c => thread'[d] = thread[d]
      /\ thread[c].pc \in {"start", "while", "recv", "clear"}
      /\ \/ thread[c].pc # "clear" /\ thread'[c].pc \in {"while", "recv"}
         \/ thread[c].pc = "recv" /\ c \in left /\ thread'[c].pc = "close"
         \/ thread[c].pc = "clear" /\ thread'[c].pc = "done"
  <2>1. CASE start(c) BY <1>2, <2>1 DEF start, At
  <2>2. CASE while(c)
    <3>1. clients[thread[c].client_id].active
      BY <2>2 DEF while, At, Inv, Marked, Live
    <3> QED BY <1>2, <2>2, <3>1 DEF while, At, Goto, Threads
  <2>3. CASE recv_end(c)
    <3>1. c \in left
      BY <2>3 DEF recv_end, At, Inv, OwnSocket, Started
    <3> QED BY <1>2, <2>3, <3>1 DEF recv_end, At, Goto, Threads
  <2>4. CASE clear(c) BY <1>2, <2>4 DEF clear, At, NoThread
  <2> QED BY <2>1, <2>2, <2>3, <2>4
<1>4. Closed'
  BY <1>1, <1>3 DEF Talk, Closed, Holding, Started, At
<1>5. ~Working(c) /\ ~Working(c)' /\ thread'[c].pc # "none"
  BY <1>3 DEF Working
<1>6. to_server = [d \in Conns |-> to_server[d]]
  BY DEF Talk, TalkTyped
<1> QED BY <1>1, <1>3, <1>4, <1>5, <1>6, ThreadTalks

LEMMA CloseTalks ==
  ASSUME NEW c \in Conns PROVE Inv /\ Talk /\ close(c) /\ UNCHANGED gui => Talk'
<1> SUFFICES ASSUME Inv, Talk, close(c), UNCHANGED gui PROVE Talk'
  OBVIOUS
<1> DEFINE h == thread[c].client_sock
<1>1. /\ thread[c].pc = "close" /\ h \in Handles /\ closesocket(h)
      /\ UNCHANGED <<counters, acceptor, report, backlog, to_client, left>>
  BY DEF close, At
<1>2. handle[h] = c
  BY <1>1 DEF Inv, OwnSocket, Started, Peer
<1>3. /\ \A d \in Conns : d # c => thread'[d] = thread[d]
      /\ thread'[c].pc = "clear"
  BY DEF close, Goto, Inv, ServerTypeOK, Threads
<1>4. /\ ended' = ended \cup {c}
      /\ to_server' = [d \in Conns |-> to_server'[d]]
      /\ \A d \in Conns : to_server'[d] = to_server[d] \/ (to_server'[d] = <<>> /\ d \in ended')
  BY <1>1, <1>2, ClosingTalks
<1>5. c \in left
  BY <1>1 DEF Talk, Closed
<1>6. /\ \A i \in DOMAIN backlog : backlog[i] # c
      /\ Holding => acceptor.conn # c
  BY <1>1 DEF Inv, Waiting, Held
<1>7. Closed'
  BY <1>1, <1>3, <1>4, <1>5, <1>6 DEF Talk, Closed, Holding, Started, At
<1>8. ~Working(c) /\ ~Working(c)' /\ thread'[c].pc # "none"
  BY <1>1, <1>3 DEF Working
<1> QED BY <1>1, <1>3, <1>4, <1>7, <1>8, ThreadTalks

\* What recv, protocol_stats_to_json and send have in common.
LEMMA ServeTalks ==
  ASSUME Inv, Talk, NEW c \in Conns, NEW pc \in {"read", "send", "while"},
         thread[c].pc \in {"recv", "read", "send"}, Goto(c, pc),
         UNCHANGED <<counters, clients, acceptor, handle, backlog, left, ended, gui>>,
         to_server' = [to_server EXCEPT ![c] = to_server'[c]],
         to_client' = [to_client EXCEPT ![c] = to_client'[c]],
         report' = [report EXCEPT ![c] = report'[c]],
         report'[c] \in [Counters -> Counts \cup {Unread}],
         pc = "while" => report'[c] = NothingRead,
         pc = "send" => \A k \in Counters : report'[c][k] # Unread,
         c = sock => Talking'
  PROVE  Talk'
<1>1. /\ thread'[c].pc = pc
      /\ \A d \in Conns : d # c => thread'[d] = thread[d]
  BY DEF Goto, Inv, ServerTypeOK, Threads
<1>2. /\ report \in [Conns -> [Counters -> Counts \cup {Unread}]]
      /\ to_server = [d \in Conns |-> to_server[d]] /\ to_client = [d \in Conns |-> to_client[d]]
  BY DEF Talk, TalkTyped
<1>3. \A d \in Conns : d # c => /\ report'[d] = report[d] /\ to_server'[d] = to_server[d]
                                /\ to_client'[d] = to_client[d]
  BY <1>2
<1>4. /\ report' \in [Conns -> [Counters -> Counts \cup {Unread}]]
      /\ to_server' = [d \in Conns |-> to_server'[d]] /\ to_client' = [d \in Conns |-> to_client'[d]]
  BY <1>2
<1>5. TalkTyped'
  BY <1>4 DEF Talk, TalkTyped, counters, gui, Counts
<1>6. Closed'
  BY <1>1 DEF Talk, Closed, Holding, Started, At
<1>7. \A d \in Conns : thread[d] # NoThread => thread'[d] # NoThread
  BY <1>1 DEF NoThread
<1>8. UsedStays
  BY <1>7, UsedStaysIf
<1>9. Fresh'
  <2>1. ~Unused(c)
    BY DEF Unused, NoThread
  <2> QED BY <1>3, <1>8, <2>1 DEF Talk, Fresh, UsedStays
<1>10. Drafts'
  BY <1>1, <1>3 DEF Talk, Drafts, Working, At, NothingRead
<1>11. Booting' /\ OwnConn'
  BY <1>8 DEF Talk, Booting, OwnConn, UsedStays, gui, Zero, counters
<1>12. ASSUME c # sock PROVE Talking'
  <2>1. sock' = sock
    BY DEF gui
  <2>2. sock \in Conns => Untouched(sock)
    BY <1>1, <1>3, <1>12, <2>1 DEF Untouched, Working
  <2>3. Grown
    BY DEF Talk, TalkTyped, Grown, Counts, counters
  <2> QED BY <1>5, <2>2, <2>3, TalkingStays DEF Talk, gui
<1> QED BY <1>5, <1>6, <1>9, <1>10, <1>11, <1>12 DEF Talk

\* The window's request is taken: before that, none is there to be taken.
LEMMA RecvTalks == ASSUME NEW c \in Conns PROVE Inv /\ Talk /\ recv(c) /\ UNCHANGED gui => Talk'
<1> SUFFICES ASSUME Inv, Talk, recv(c), UNCHANGED gui PROVE Talk'
  OBVIOUS
<1>1. /\ thread[c].pc = "recv" /\ Goto(c, "read")
      /\ UNCHANGED <<counters, clients, acceptor, handle, report, backlog, to_client, left, ended>>
  BY DEF recv, At
<1>2. Started(c) /\ Peer(c) = c
  BY <1>1 DEF Inv, OwnSocket, Started
<1>3. to_server[c] # <<>> /\ to_server' = [to_server EXCEPT ![c] = <<>>]
  BY <1>2 DEF recv
<1>4. /\ report \in [Conns -> [Counters -> Counts \cup {Unread}]]
      /\ to_server = [d \in Conns |-> to_server[d]] /\ to_client = [d \in Conns |-> to_client[d]]
      /\ report[c] = NothingRead /\ c \notin ended
  BY <1>1, <1>2 DEF Talk, TalkTyped, Drafts, Working, Closed
<1>5. to_server'[c] = <<>> /\ thread'[c].pc = "read"
  BY <1>1, <1>3, <1>4 DEF Goto, Inv, ServerTypeOK, Threads
<1>6. ASSUME c = sock PROVE Talking'
  <2>1. /\ sock' = c /\ UNCHANGED <<update, response, last_stats, recv_buffer, stats>>
    BY <1>1, <1>6 DEF gui, counters
  <2>2. update = "recv" /\ Asked(sock)
    BY <1>3, <1>4, <1>6 DEF Talk, Talking, Composing, Answering, Over, Quiet
  <2>3. Composing(sock)'
    BY <1>1, <1>4, <1>5, <1>6, <2>1, <2>2 DEF Asked, Composing, Working, NothingRead
  <2> QED BY <2>1, <2>2, <2>3 DEF Talk, Talking
<1> QED
  <2>1. /\ to_server' = [to_server EXCEPT ![c] = to_server'[c]]
        /\ to_client' = [to_client EXCEPT ![c] = to_client'[c]]
        /\ report' = [report EXCEPT ![c] = report'[c]]
        /\ report'[c] \in [Counters -> Counts \cup {Unread}]
    BY <1>1, <1>3, <1>4, <1>5
  <2> QED BY <1>1, <1>6, <2>1, ServeTalks

\* A counter is read: it is no less than what the window shows.
LEMMA ReadTalks ==
  ASSUME NEW c \in Conns
  PROVE  Inv /\ Talk /\ protocol_stats_to_json(c) /\ UNCHANGED gui => Talk'
<1> SUFFICES ASSUME Inv, Talk, protocol_stats_to_json(c), UNCHANGED gui PROVE Talk'
  OBVIOUS
<1>1. /\ thread[c].pc = "read"
      /\ UNCHANGED <<counters, clients, acceptor, handle, backlog, to_server, to_client, left,
                     ended>>
  BY DEF protocol_stats_to_json, network, At
<1>2. PICK k \in Counters : report' = [report EXCEPT ![c][k] = stats[k]]
  BY DEF protocol_stats_to_json
<1>3. /\ report \in [Conns -> [Counters -> Counts \cup {Unread}]]
      /\ to_server = [d \in Conns |-> to_server[d]] /\ to_client = [d \in Conns |-> to_client[d]]
      /\ stats \in [Counters -> Counts] /\ c \notin ended
  BY <1>1 DEF Talk, TalkTyped, Closed, Started
<1>4. /\ report' = [report EXCEPT ![c] = report'[c]]
      /\ report'[c] \in [Counters -> Counts \cup {Unread}]
      /\ report'[c][k] = stats[k] /\ \A j \in Counters : j # k => report'[c][j] = report[c][j]
  BY <1>2, <1>3
<1>5. PICK pc \in {"read", "send"} :
        Goto(c, pc) /\ (pc = "send" => \A j \in Counters : report'[c][j] # Unread)
  <2>1. CASE \E j \in Counters : report'[c][j] = Unread
    BY <2>1 DEF protocol_stats_to_json
  <2>2. CASE ~ \E j \in Counters : report'[c][j] = Unread
    BY <2>2 DEF protocol_stats_to_json
  <2> QED BY <2>1, <2>2
<1>6. thread'[c].pc = pc
  BY <1>5 DEF Goto, Inv, ServerTypeOK, Threads
<1>7. ASSUME c = sock PROVE Talking'
  <2>1. /\ sock' = c /\ UNCHANGED <<update, response, last_stats, recv_buffer, stats>>
    BY <1>1, <1>7 DEF gui, counters
  <2>2. update = "recv" /\ Composing(sock)
    BY <1>1, <1>3, <1>7 DEF Talk, Talking, Asked, Answering, Over, Quiet, Working
  <2>3. \A j \in Counters : last_stats[j] <= stats[j] /\ stats[j] \in Int
    BY <1>3 DEF Talk, Talking, Counts
  <2>4. \A j \in Counters : report'[c][j] # Unread => last_stats[j] <= report'[c][j]
                                                      /\ report'[c][j] <= stats[j]
    BY <1>4, <1>7, <2>2, <2>3 DEF Composing
  <2>5. Composing(sock)'
    BY <1>1, <1>6, <1>7, <2>1, <2>2, <2>4 DEF Composing, Working
  <2> QED BY <2>1, <2>2, <2>3, <2>5 DEF Talking
<1> QED
  <2>1. /\ to_server' = [to_server EXCEPT ![c] = to_server'[c]]
        /\ to_client' = [to_client EXCEPT ![c] = to_client'[c]]
    BY <1>1, <1>3
  <2> QED BY <1>1, <1>4, <1>5, <1>7, <2>1, ServeTalks

\* The answer is sent.
LEMMA SendTalks == ASSUME NEW c \in Conns PROVE Inv /\ Talk /\ send(c) /\ UNCHANGED gui => Talk'
<1> SUFFICES ASSUME Inv, Talk, send(c), UNCHANGED gui PROVE Talk'
  OBVIOUS
<1>1. /\ thread[c].pc = "send" /\ Goto(c, "while")
      /\ report' = [report EXCEPT ![c] = NothingRead]
      /\ UNCHANGED <<counters, clients, acceptor, handle, backlog, to_server, left, ended>>
  BY DEF send, At
<1>2. Started(c) /\ Peer(c) = c
  BY <1>1 DEF Inv, OwnSocket, Started
<1>3. to_client' = IF c \in left THEN to_client
                   ELSE [to_client EXCEPT ![c] = @ \o Line(report[c])]
  BY <1>2 DEF send
<1>4. /\ report \in [Conns -> [Counters -> Counts \cup {Unread}]]
      /\ to_server = [d \in Conns |-> to_server[d]] /\ to_client = [d \in Conns |-> to_client[d]]
      /\ \A k \in Counters : report[c][k] # Unread
      /\ c \notin ended
  BY <1>1, <1>2 DEF Talk, TalkTyped, Drafts, At, Closed
<1>5. report[c] \in Rs
  BY <1>4 DEF Rs
<1>6. report'[c] = NothingRead /\ thread'[c].pc = "while"
  BY <1>1, <1>4 DEF Goto, Inv, ServerTypeOK, Threads
<1>7. ASSUME c = sock PROVE Talking'
  <2>1. /\ sock' = c /\ UNCHANGED <<update, response, last_stats, recv_buffer, stats>>
    BY <1>1, <1>7 DEF gui, counters
  <2>2. update = "recv" /\ Composing(sock)
    BY <1>1, <1>4, <1>7 DEF Talk, Talking, Asked, Answering, Over, Quiet, Working
  <2>3. to_client[c] = <<>> /\ c \notin left
    BY <1>7, <2>2 DEF Composing, Talk, OwnConn
  <2>4. <<>> \o Line(report[c]) = Line(report[c])
    BY DEF Line
  <2>5. to_client'[c] = Line(report[c])
    BY <1>3, <1>4, <2>3, <2>4
  <2>6. PICK r \in Rs : r = report[c]
    BY <1>5
  <2>7. Fits(r)
    BY <1>4, <1>7, <2>2, <2>6 DEF Composing, Fits
  <2>8. recv_buffer = <<>> /\ to_server[c] = <<>>
    BY <1>7, <2>2 DEF Composing
  <2>9. Fits(r)' /\ Rs' = Rs
    BY <2>1, <2>7 DEF Fits, Rs, Counts
  <2>10. Split(r, sock)'
    BY <2>1, <2>5, <2>6, <2>8 DEF Split
  <2>11. Answering(sock)'
    BY <1>1, <1>6, <2>1, <2>8, <2>9, <2>10 DEF Answering, Working
  <2> QED BY <2>1, <2>2, <2>11 DEF Talk, Talking
<1> QED
  <2>1. /\ to_server' = [to_server EXCEPT ![c] = to_server'[c]]
        /\ report' = [report EXCEPT ![c] = report'[c]]
        /\ report'[c] \in [Counters -> Counts \cup {Unread}]
    BY <1>1, <1>4, <1>6 DEF NothingRead
  <2>2. to_client' = [to_client EXCEPT ![c] = to_client'[c]]
    BY <1>3, <1>4
  <2> QED BY <1>1, <1>6, <1>7, <2>1, <2>2, ServeTalks

\* The counters: only before the stack listens do they go back.
LEMMA CountTalks ==
  Inv /\ Talk /\ UNCHANGED gui
    /\ (\/ arp_init \/ protocol_stats_init \/ monitor_server_init
        \/ \E k \in Counters : Count(k)) => Talk'
<1> SUFFICES ASSUME Inv, Talk, UNCHANGED gui,
                    \/ arp_init \/ protocol_stats_init \/ monitor_server_init
                    \/ \E k \in Counters : Count(k)
             PROVE  Talk'
  OBVIOUS
<1>1. UNCHANGED <<server, report, network>>
  BY DEF arp_init, protocol_stats_init, monitor_server_init, Count
<1>2. /\ stats' \in [Counters -> Counts]
      /\ boot' \in {"arp_init", "protocol_stats_init", "monitor_server_init", "polling"}
      /\ boot = "polling" => boot' = "polling" /\ Grown
  <2>1. stats \in [Counters -> Counts]
        /\ boot \in {"arp_init", "protocol_stats_init", "monitor_server_init", "polling"}
    BY DEF Talk, TalkTyped
  <2>2. CASE arp_init
    BY <2>1, <2>2, SizesAssumption, CountersAssumption DEF arp_init, Counts
  <2>3. CASE protocol_stats_init
    BY <2>1, <2>3, SizesAssumption DEF protocol_stats_init, Counts, Zero
  <2>4. CASE monitor_server_init
    BY <2>1, <2>4 DEF monitor_server_init
  <2>5. ASSUME NEW k \in Counters, Count(k)
        PROVE  /\ stats' \in [Counters -> Counts] /\ boot = "polling" /\ boot' = boot
               /\ Grown
    BY <2>1, <2>5, SizesAssumption DEF Count, Counts, Grown
  <2> QED BY <2>1, <2>2, <2>3, <2>4, <2>5
<1>3. TalkTyped'
  BY <1>1, <1>2 DEF Talk, TalkTyped, gui, network, Counts
<1>4. Closed' /\ Fresh' /\ Drafts' /\ OwnConn'
  BY <1>1 DEF Talk, Closed, Fresh, Drafts, OwnConn, gui, server, network, Holding, Started, At,
              Unused, Working, NothingRead
<1>5. Booting'
  BY <1>1, <1>2 DEF Talk, Booting, gui, Zero
<1>6. Talking'
  <2>1. CASE boot = "polling"
    <3>1. sock' = sock
      BY DEF gui
    <3>2. Untouched(sock)
      BY <1>1, <3>1 DEF Untouched, Working, network, server
    <3> QED BY <1>1, <1>2, <1>3, <2>1, <3>2, TalkingStays DEF Talk, gui, network
  <2>2. CASE boot # "polling"
    <3>1. sock \notin Conns /\ update # "show" /\ update # "recv" /\ last_stats = Zero
      BY <2>2 DEF Talk, Booting, OwnConn
    <3>2. \A k \in Counters : last_stats[k] <= stats'[k]
      BY <1>2, <3>1, SizesAssumption DEF Zero, Counts
    <3> QED BY <3>1, <3>2 DEF Talk, Talking, gui
  <2> QED BY <2>1, <2>2
<1> QED BY <1>3, <1>4, <1>5, <1>6 DEF Talk

LEMMA ServerKeepsTalk == Inv /\ Talk /\ ServerNext /\ UNCHANGED gui => Talk'
<1> SUFFICES ASSUME Inv, Talk, ServerNext, UNCHANGED gui PROVE Talk'
  OBVIOUS
<1>1. CASE arp_init \/ protocol_stats_init \/ monitor_server_init \/ \E k \in Counters : Count(k)
  BY <1>1, CountTalks
<1>2. CASE accept BY <1>2, AcceptTalks
<1>3. CASE place BY <1>3, PlaceTalks
<1>4. CASE spawn BY <1>4, SpawnTalks
<1>5. CASE spawn_fails \/ reject BY <1>5, NoThreadTalks
<1>6. CASE give_back BY <1>6, GiveBackTalks
<1>7. ASSUME NEW c \in Conns, client_handler(c) PROVE Talk'
  <2>1. CASE start(c) \/ while(c) \/ recv_end(c) \/ clear(c) BY <2>1, StartTalks
  <2>2. CASE recv(c) BY <2>2, RecvTalks
  <2>3. CASE protocol_stats_to_json(c) BY <2>3, ReadTalks
  <2>4. CASE send(c) BY <2>4, SendTalks
  <2>5. CASE close(c) BY <2>5, CloseTalks
  <2> QED BY <1>7, <2>1, <2>2, <2>3, <2>4, <2>5 DEF client_handler
<1> QED BY <1>1, <1>2, <1>3, <1>4, <1>5, <1>6, <1>7 DEF ServerNext

-----------------------------------------------------------------------------
(* The window thread and the other programs *)

\* Connections are made and left.
LEMMA NetTalks ==
  ASSUME Inv, Talk,
         UNCHANGED <<left, to_client>> \/ \E s : Leave(s),
         backlog' = backlog \/ \E c \in Conns : Unused(c) /\ backlog' = Append(backlog, c),
         UNCHANGED <<counters, server, report, to_server, ended, update, sock_lock, last_stats>>,
         sock' \in Ours \cup {None, Unconnected}, connected' \in BOOLEAN
  PROVE  TalkTyped' /\ Closed' /\ Fresh' /\ Drafts' /\ UsedStays
<1>1. /\ left \subseteq left'
      /\ to_client' = [c \in Conns |-> to_client'[c]]
      /\ \A c \in Conns : to_client'[c] \in {to_client[c], <<>>}
  <2>1. to_client = [c \in Conns |-> to_client[c]]
    BY DEF Talk, TalkTyped
  <2> QED BY <2>1 DEF Leave
<1>2. TalkTyped'
  BY <1>1 DEF Talk, TalkTyped, counters, Counts
<1>3. /\ \A i \in DOMAIN backlog : i \in DOMAIN backlog' /\ backlog'[i] = backlog[i]
      /\ \A i \in DOMAIN backlog' : backlog'[i] \notin ended
  <2>1. backlog \in Seq(Conns)
    BY DEF Inv, ServerTypeOK
  <2>2. CASE backlog' = backlog
    BY <2>2 DEF Talk, Closed
  <2>3. ASSUME NEW c \in Conns, Unused(c), backlog' = Append(backlog, c)
        PROVE  /\ \A i \in DOMAIN backlog : i \in DOMAIN backlog' /\ backlog'[i] = backlog[i]
               /\ \A i \in DOMAIN backlog' : backlog'[i] \notin ended
    <3>1. c \notin ended
      BY <2>3 DEF Unused
    <3> QED BY <2>1, <2>3, <3>1 DEF Talk, Closed
  <2> QED BY <2>2, <2>3
<1>4. Closed'
  BY <1>1, <1>3 DEF Talk, Closed, server, Holding, Started, At
<1>5. UsedStays
  BY <1>1, <1>3, UsedStaysIf DEF server
<1>6. Fresh'
  BY <1>1, <1>5, FreshStays DEF Talk
<1>7. Drafts'
  BY DEF Talk, Drafts, server, Working, At, NothingRead
<1> QED BY <1>2, <1>4, <1>5, <1>6, <1>7

\* The lock is free: no request is under way.
LEMMA WindowKeepsTalk ==
  Inv /\ Talk /\ (auto_connect \/ toggle_connection \/ Window \/ WindowLocks) => Talk'
<1> SUFFICES ASSUME Inv, Talk, auto_connect \/ toggle_connection \/ Window \/ WindowLocks
             PROVE  Talk'
  OBVIOUS
<1>1. CASE auto_connect \/ toggle_connection \/ Window \/ OutOfConns
  <2>1. /\ UNCHANGED <<serverVars, sock, sock_lock, recv_buffer, update, response, last_stats>>
        /\ connected' \in BOOLEAN
    BY <1>1 DEF auto_connect, toggle_connection, Window, clear_flag, OutOfConns, Talk, TalkTyped
  <2>2. /\ UNCHANGED <<counters, server, report, backlog, to_server, to_client, left, ended>>
        /\ UNCHANGED <<boot, stats, thread, acceptor>>
    BY <2>1 DEF serverVars, network, counters, server
  <2>3. sock \in Ours \cup {None, Unconnected}
    BY DEF Talk, TalkTyped
  <2>4. TalkTyped' /\ Closed' /\ Fresh' /\ Drafts' /\ UsedStays
    BY <2>1, <2>2, <2>3, NetTalks
  <2>5. Booting' /\ OwnConn'
    BY <2>1, <2>2, <2>4 DEF Talk, Booting, OwnConn, UsedStays, Zero
  <2>6. Untouched(sock) /\ Grown
    BY <2>1, <2>2 DEF Untouched, Working, Grown, Talk, TalkTyped, Counts
  <2>7. Talking'
    BY <2>1, <2>2, <2>4, <2>6, TalkingStays DEF Talk
  <2> QED BY <2>4, <2>5, <2>7 DEF Talk
<1>2. CASE Refused \/ disconnect
  <2>1. /\ Leave(sock) /\ sock' \in {None, Unconnected} /\ sock_lock = "free"
        /\ UNCHANGED <<counters, server, report, backlog, to_server, ended, connected, sock_lock,
                       update, response, last_stats>>
        /\ recv_buffer' \in {recv_buffer, <<>>}
    BY <1>2 DEF Refused, disconnect
  <2>2. sock' \notin Conns /\ sock' \in Ours \cup {None, Unconnected} /\ connected \in BOOLEAN
    BY <2>1, SocketNamesAssumption DEF Talk, TalkTyped
  <2>3. TalkTyped' /\ Closed' /\ Fresh' /\ Drafts'
    BY <2>1, <2>2, NetTalks
  <2>4. update # "recv"
    BY <2>1 DEF Talk, TalkTyped
  <2>5. Booting' /\ OwnConn'
    BY <2>1, <2>2, <2>4 DEF Talk, Booting, OwnConn, counters, Zero
  <2>6. Talking'
    BY <2>1, <2>2, <2>4 DEF Talk, Talking, counters, Rs, Fits, Counts
  <2> QED BY <2>3, <2>5, <2>6 DEF Talk
<1>3. ASSUME NEW c \in Ours, Connected(c) PROVE Talk'
  <2>1. /\ c \in Conns /\ Unused(c) /\ backlog' = Append(backlog, c) /\ Leave(sock)
        /\ sock' = c /\ connected' = TRUE /\ sock_lock = "free" /\ boot = "polling"
        /\ UNCHANGED <<counters, server, report, to_server, ended, sock_lock, recv_buffer,
                       update, response, last_stats>>
    BY <1>3, ConnsAssumption DEF Connected, Listening
  <2>2. TalkTyped' /\ Closed' /\ Fresh' /\ Drafts'
    BY <2>1, NetTalks
  <2>3. update # "recv"
    BY <2>1 DEF Talk, TalkTyped
  <2>4. Booting'
    BY <2>1 DEF Booting, counters
  <2>5. c # sock
    BY <2>1 DEF Talk, OwnConn
  <2>6. OwnConn'
    <3>1. backlog \in Seq(Conns)
      BY DEF Inv, ServerTypeOK
    <3>2. Len(backlog) + 1 \in DOMAIN backlog' /\ backlog'[Len(backlog) + 1] = c
      BY <2>1, <3>1
    <3>3. ~Unused(c)'
      BY <3>2 DEF Unused
    <3>4. c \notin left'
      BY <2>1, <2>5 DEF Unused, Leave
    <3> QED BY <2>1, <2>3, <3>3, <3>4 DEF OwnConn, Unused
  <2>7. Quiet(sock)'
    <3>1. to_server[c] = <<>> /\ to_client[c] = <<>>
      BY <2>1 DEF Talk, Fresh
    <3>2. to_client'[c] = <<>>
      BY <2>1, <3>1 DEF Leave
    <3>3. thread[c].pc = "none"
      BY <2>1 DEF Unused, NoThread
    <3> QED BY <2>1, <3>1, <3>2, <3>3 DEF Quiet, Working, server
  <2>8. Talking'
    BY <2>1, <2>3, <2>7 DEF Talk, Talking, counters, Rs, Fits, Counts
  <2> QED BY <2>2, <2>4, <2>6, <2>8 DEF Talk
<1> QED BY <1>1, <1>2, <1>3 DEF WindowLocks

LEMMA OthersKeepTalk ==
  ASSUME NEW c \in Others PROVE Inv /\ Talk /\ (OtherConnects(c) \/ OtherLeaves(c)) => Talk'
<1> SUFFICES ASSUME Inv, Talk, OtherConnects(c) \/ OtherLeaves(c) PROVE Talk'
  OBVIOUS
<1>1. /\ UNCHANGED <<left, to_client>> \/ Leave(c)
      /\ backlog' = backlog \/ (Unused(c) /\ backlog' = Append(backlog, c))
      /\ UNCHANGED <<counters, server, report, to_server, ended, gui>>
  BY DEF OtherConnects, OtherLeaves
<1>2. c \in Conns /\ (sock \in Conns => sock # c)
  BY ConnsAssumption, SocketNamesAssumption DEF Talk, TalkTyped
<1>3. /\ UNCHANGED <<sock, connected, update, sock_lock, last_stats, recv_buffer, response>>
      /\ UNCHANGED <<boot, stats, thread, acceptor>>
  BY <1>1 DEF gui, counters, server
<1>4. sock \in Ours \cup {None, Unconnected} /\ connected \in BOOLEAN
  BY DEF Talk, TalkTyped
<1>5. TalkTyped' /\ Closed' /\ Fresh' /\ Drafts' /\ UsedStays
  BY <1>1, <1>2, <1>3, <1>4, NetTalks
<1>6. sock \in Conns => (sock \in left' => sock \in left) /\ to_client'[sock] = to_client[sock]
  BY <1>1, <1>2 DEF Leave
<1>7. Booting' /\ OwnConn'
  BY <1>3, <1>5, <1>6 DEF Talk, Booting, OwnConn, UsedStays, Zero
<1>8. (sock \in Conns => Untouched(sock)) /\ Grown
  BY <1>1, <1>3, <1>6 DEF Untouched, Working, Grown, Talk, TalkTyped, Counts
<1>9. Talking'
  BY <1>1, <1>3, <1>5, <1>8, TalkingStays DEF Talk
<1> QED BY <1>5, <1>7, <1>9 DEF Talk

-----------------------------------------------------------------------------
(* update_data_thread *)

\* What the steps of this thread leave alone.
LEMMA UpdateTalks ==
  ASSUME Inv, Talk, UNCHANGED <<counters, server, report, backlog, left, ended, sock>>,
         to_server' = [c \in Conns |-> to_server'[c]],
         to_client' = [c \in Conns |-> to_client'[c]],
         \A c \in Conns : c # sock => to_server'[c] = to_server[c] /\ to_client'[c] = to_client[c],
         connected' \in BOOLEAN, last_stats' \in Rs,
         sock_lock' = IF update' \in {"recv", "nap"} THEN "update" ELSE "free"
  PROVE  /\ TalkTyped' /\ Closed' /\ Fresh' /\ Drafts'
         /\ sock \in Conns => sock \notin left' /\ ~Unused(sock)'
<1>1. UNCHANGED <<boot, stats, thread, acceptor>>
  BY DEF counters, server
<1>2. TalkTyped'
  BY <1>1 DEF Talk, TalkTyped, Rs, Counts
<1>3. Closed' /\ Drafts'
  BY <1>1 DEF Talk, Closed, Drafts, Holding, Started, At, Working, NothingRead
<1>4. \A c \in Conns : Unused(c)' <=> Unused(c)
  BY <1>1 DEF Unused, NoThread
<1>5. Fresh' /\ (sock \in Conns => sock \notin left' /\ ~Unused(sock)')
  BY <1>4 DEF Talk, Fresh, OwnConn, Unused
<1> QED BY <1>2, <1>3, <1>5

\* The thread looks, sleeps or clears after an error: no request is under way.
LEMMA PauseTalks ==
  Inv /\ Talk /\ (Look \/ Nap \/ DropFlag \/ DropBuffer) => Talk'
<1> SUFFICES ASSUME Inv, Talk, Look \/ Nap \/ DropFlag \/ DropBuffer PROVE Talk'
  OBVIOUS
<1>1. /\ UNCHANGED <<serverVars, sock, response, last_stats>>
      /\ update # "recv" /\ update # "show" /\ update' # "recv" /\ update' # "show"
      /\ recv_buffer' \in {recv_buffer, <<>>}
  BY DEF Look, Nap, DropFlag, DropBuffer
<1>2. connected' \in BOOLEAN
  BY DEF Look, Nap, DropFlag, DropBuffer, Talk, TalkTyped
<1>3. sock_lock' = IF update' \in {"recv", "nap"} THEN "update" ELSE "free"
  <2>1. CASE Look BY <2>1 DEF Look, Talk, TalkTyped
  <2>2. CASE Nap BY <2>2 DEF Nap
  <2>3. CASE DropFlag BY <2>3 DEF DropFlag, Talk, TalkTyped
  <2>4. CASE DropBuffer BY <2>4 DEF DropBuffer, Talk, TalkTyped
  <2> QED BY <2>1, <2>2, <2>3, <2>4
<1>4. /\ UNCHANGED <<counters, server, report, backlog, to_server, to_client, left, ended>>
      /\ UNCHANGED <<boot, stats, thread>>
  BY <1>1 DEF serverVars, network, counters, server
<1>5. /\ to_server = [c \in Conns |-> to_server[c]] /\ to_client = [c \in Conns |-> to_client[c]]
      /\ last_stats \in Rs
  BY DEF Talk, TalkTyped, Rs
<1>6. /\ TalkTyped' /\ Closed' /\ Fresh' /\ Drafts'
      /\ sock \in Conns => sock \notin left' /\ ~Unused(sock)'
  BY <1>1, <1>2, <1>3, <1>4, <1>5, UpdateTalks
<1>7. Booting' /\ OwnConn'
  BY <1>1, <1>4, <1>6 DEF Talk, Booting, OwnConn, Zero, Unused
<1>8. Talking'
  BY <1>1, <1>4 DEF Talk, Talking, Quiet, Working
<1> QED BY <1>6, <1>7, <1>8 DEF Talk

LEMMA AskTalks == Inv /\ Talk /\ Ask => Talk'
<1> SUFFICES ASSUME Inv, Talk, Ask PROVE Talk'
  OBVIOUS
<1>1. /\ update = "lock" /\ sock_lock = "free"
      /\ UNCHANGED <<counters, server, report, backlog, to_client, left, ended, sock, connected,
                     recv_buffer, response, last_stats>>
      /\ UNCHANGED <<boot, stats, thread>>
  BY DEF Ask, counters, server
<1>2. /\ to_server = [c \in Conns |-> to_server[c]] /\ to_client = [c \in Conns |-> to_client[c]]
      /\ sock \in Ours \cup {None, Unconnected} /\ connected \in BOOLEAN /\ last_stats \in Rs
  BY DEF Talk, TalkTyped, Rs
<1>3. /\ recv_buffer = <<>> /\ (sock \in Conns => Quiet(sock))
      /\ \A k \in Counters : last_stats[k] <= stats[k]
  BY <1>1 DEF Talk, Talking
<1>4. \/ /\ sock_lock' = "update" /\ update' = "nap" /\ to_server' = to_server
      \/ /\ sock_lock' = sock_lock /\ update' = "check" /\ to_server' = to_server
      \/ /\ sock_lock' = "update" /\ update' = "recv" /\ sock \in Conns
         /\ to_server' = [to_server EXCEPT ![sock] = Append(@, "GET_STATS")]
  BY <1>2, ConnsAssumption DEF Ask
<1>5. /\ sock_lock' = IF update' \in {"recv", "nap"} THEN "update" ELSE "free"
      /\ update' # "show"
  <2>1. CASE sock_lock' = "update" /\ update' = "nap" BY <2>1
  <2>2. CASE sock_lock' = sock_lock /\ update' = "check" BY <1>1, <2>2
  <2>3. CASE sock_lock' = "update" /\ update' = "recv" BY <2>3
  <2> QED BY <1>4, <2>1, <2>2, <2>3
<1>6. /\ to_server' = [c \in Conns |-> to_server'[c]]
      /\ \A c \in Conns : c # sock => to_server'[c] = to_server[c]
  BY <1>2, <1>4
<1>7. /\ TalkTyped' /\ Closed' /\ Fresh' /\ Drafts'
      /\ sock \in Conns => sock \notin left' /\ ~Unused(sock)'
  BY <1>1, <1>2, <1>5, <1>6, UpdateTalks
<1>8. Booting'
  BY <1>1, <1>5 DEF Talk, Booting, Zero
<1>9. OwnConn'
  BY <1>1, <1>4, <1>7 DEF OwnConn, Unused
<1>10. CASE update' # "recv"
  <2>1. to_server' = to_server
    BY <1>4, <1>10
  <2>2. sock \in Conns => Quiet(sock)'
    BY <1>1, <1>3, <2>1 DEF Quiet, Working
  <2>3. Talking'
    BY <1>1, <1>3, <1>5, <1>10, <2>2 DEF Talking, Quiet, Working
  <2> QED BY <1>7, <1>8, <1>9, <2>3 DEF Talk
<1>11. CASE update' = "recv"
  <2>1. sock \in Conns /\ to_server' = [to_server EXCEPT ![sock] = Append(@, "GET_STATS")]
    BY <1>4, <1>11
  <2>2. to_client'[sock] = <<>> /\ ~Working(sock) /\ (sock \notin ended => to_server[sock] = <<>>)
    BY <1>1, <1>3, <2>1 DEF Quiet
  <2>3. CASE sock \in ended
    <3>1. Over(sock)'
      BY <1>1, <1>3, <2>2, <2>3 DEF Over, Working
    <3> QED BY <1>1, <1>3, <1>7, <1>8, <1>9, <1>11, <3>1 DEF Talk, Talking
  <2>4. CASE sock \notin ended
    <3>1. to_server[sock] = <<>>
      BY <2>2, <2>4
    <3>2. to_server'[sock] = Append(to_server[sock], "GET_STATS")
      BY <1>2, <2>1
    <3>3. to_server'[sock] = <<"GET_STATS">>
      BY <3>1, <3>2
    <3>4. Asked(sock)'
      BY <1>1, <1>3, <2>2, <3>3 DEF Asked, Working
    <3> QED BY <1>1, <1>3, <1>7, <1>8, <1>9, <1>11, <3>4 DEF Talk, Talking
  <2> QED BY <2>3, <2>4
<1> QED BY <1>10, <1>11

\* The first parts of a short sequence.
LEMMA Prefixes ==
  ASSUME NEW a, NEW b
  PROVE  /\ Len(<<a, b>>) = 2 /\ Len(<<a>>) = 1
         /\ SubSeq(<<a, b>>, 1, 1) = <<a>> /\ SubSeq(<<a, b>>, 2, 2) = <<b>>
         /\ SubSeq(<<a, b>>, 1, 2) = <<a, b>> /\ SubSeq(<<a, b>>, 3, 2) = <<>>
         /\ SubSeq(<<a>>, 1, 1) = <<a>> /\ SubSeq(<<a>>, 2, 1) = <<>>
         /\ <<>> \o <<a>> = <<a>> /\ <<>> \o <<a, b>> = <<a, b>> /\ <<a>> \o <<b>> = <<a, b>>
<1> DEFINE S == {a, b}
<1>0. <<a, b>> \in Seq(S) /\ <<a>> \in Seq(S) /\ <<b>> \in Seq(S) /\ <<>> \in Seq(S)
  OBVIOUS
<1> HIDE DEF S
<1>a. ASSUME NEW q \in Seq(S), Len(q) = 1 PROVE q = <<q[1]>>
  BY <1>a
<1>b. ASSUME NEW q \in Seq(S), Len(q) = 2 PROVE q = <<q[1], q[2]>>
  BY <1>b
<1>1. Len(<<a, b>>) = 2 /\ Len(<<a>>) = 1 /\ Len(<<b>>) = 1 OBVIOUS
<1>2. SubSeq(<<a, b>>, 1, 1) = <<a>>
  <2>1. /\ SubSeq(<<a, b>>, 1, 1) \in Seq(S)
        /\ Len(SubSeq(<<a, b>>, 1, 1)) = 1 /\ SubSeq(<<a, b>>, 1, 1)[1] = a
    BY <1>0, <1>1
  <2> QED BY <2>1, <1>a
<1>3. SubSeq(<<a, b>>, 2, 2) = <<b>>
  <2>1. /\ SubSeq(<<a, b>>, 2, 2) \in Seq(S)
        /\ Len(SubSeq(<<a, b>>, 2, 2)) = 1 /\ SubSeq(<<a, b>>, 2, 2)[1] = b
    BY <1>0, <1>1
  <2> QED BY <2>1, <1>a
<1>4. SubSeq(<<a, b>>, 1, 2) = <<a,b>>
  <2>1. /\ SubSeq(<<a, b>>, 1, 2) \in Seq(S)
        /\ Len(SubSeq(<<a, b>>, 1, 2)) = 2
        /\ SubSeq(<<a, b>>, 1, 2)[1] = a /\ SubSeq(<<a, b>>, 1, 2)[2] = b
    BY <1>0, <1>1
  <2> QED BY <2>1, <1>b
<1>5. SubSeq(<<a, b>>, 3, 2) = <<>> BY <1>0
<1>6. SubSeq(<<a>>, 1, 1) = <<a>>
  <2>1. /\ SubSeq(<<a>>, 1, 1) \in Seq(S)
        /\ Len(SubSeq(<<a>>, 1, 1)) = 1 /\ SubSeq(<<a>>, 1, 1)[1] = a
    BY <1>0, <1>1
  <2> QED BY <2>1, <1>a
<1>7. SubSeq(<<a>>, 2, 1) = <<>> BY <1>0
<1>8. <<>> \o <<a>> = <<a>> BY <1>0
<1>9. <<>> \o <<a, b>> = <<a, b>> BY <1>0
<1>10. <<a>> \o <<b>> = <<a, b>>
  <2>1. <<a>> \o <<b>> \in Seq(S) /\ Len(<<a>> \o <<b>>) = 2 /\ (<<a>> \o <<b>>)[1] = a /\ (<<a>> \o <<b>>)[2] = b
    BY <1>0, <1>1
  <2> QED BY <2>1, <1>b
<1> QED BY <1>1, <1>2, <1>3, <1>4, <1>5, <1>6, <1>7, <1>8, <1>9, <1>10

\* The end of a line is in the buffer when the whole answer is.
LEMMA AnswerIn ==
  ASSUME NEW r \in Rs, NEW s \in Conns, Split(r, s)
  PROVE  /\ Newlines # {} => /\ recv_buffer = Line(r) /\ to_client[s] = <<>>
                             /\ Newlines = {2}
         /\ Newlines = {} => \/ recv_buffer = <<>> /\ to_client[s] = Line(r)
                             \/ recv_buffer = <<<<"head", r>>>> /\ to_client[s] = <<<<"tail", r>>>>
<1>1. ASSUME recv_buffer = <<>> PROVE Newlines = {}
  BY <1>1 DEF Newlines
<1>2. ASSUME recv_buffer = <<<<"head", r>>>> PROVE Newlines = {}
  BY <1>2 DEF Newlines
<1>3. ASSUME recv_buffer = Line(r) PROVE Newlines = {2}
  <2>1. /\ DOMAIN recv_buffer = {1, 2} /\ recv_buffer[1] = <<"head", r>> /\ recv_buffer[2] = <<"tail", r>>
    BY <1>3 DEF Line
  <2> QED BY <2>1 DEF Newlines
<1> QED BY <1>1, <1>2, <1>3 DEF Split

LEMMA ReceiveTalks == Inv /\ Talk /\ Receive => Talk'
<1> SUFFICES ASSUME Inv, Talk, Receive PROVE Talk'
  OBVIOUS
<1>1. /\ update = "recv" /\ Newlines = {}
      /\ UNCHANGED <<counters, server, report, backlog, to_server, left, ended, sock, connected,
                     sock_lock, update, response, last_stats>>
      /\ UNCHANGED <<boot, stats, thread>>
  BY DEF Receive, counters, server
<1>2. /\ to_server = [c \in Conns |-> to_server[c]] /\ to_client = [c \in Conns |-> to_client[c]]
      /\ connected \in BOOLEAN /\ last_stats \in Rs
      /\ sock_lock = IF update \in {"recv", "nap"} THEN "update" ELSE "free"
      /\ sock \in Conns
  BY <1>1 DEF Talk, TalkTyped, Rs, OwnConn
<1>3. PICK n \in 1..Len(to_client[sock]) :
        /\ recv_buffer' = recv_buffer \o SubSeq(to_client[sock], 1, n)
        /\ to_client' = [to_client EXCEPT ![sock] = SubSeq(@, n + 1, Len(@))]
  BY <1>2 DEF Receive, Arriving
<1>4. to_client[sock] # <<>>
  BY <1>3
<1>5. Answering(sock)
  BY <1>1, <1>4 DEF Talk, Talking, Asked, Composing, Over
<1>6. PICK r \in Rs : Fits(r) /\ Split(r, sock)
  BY <1>5 DEF Answering
<1>7. to_client'[sock] = SubSeq(to_client[sock], n + 1, Len(to_client[sock]))
  BY <1>2, <1>3
<1>8. PICK h : h = <<"head", r>> OBVIOUS
<1>9. PICK t : t = <<"tail", r>> OBVIOUS
<1>10. Line(r) = <<h, t>>
  BY <1>8, <1>9 DEF Line
<1>11. \/ recv_buffer' = <<h>> /\ to_client'[sock] = <<t>>
       \/ recv_buffer' = <<h, t>> /\ to_client'[sock] = <<>>
  <2>1. \/ recv_buffer = <<>> /\ to_client[sock] = <<h, t>>
        \/ recv_buffer = <<h>> /\ to_client[sock] = <<t>>
    BY <1>1, <1>2, <1>6, <1>8, <1>9, <1>10, AnswerIn
  <2>2. CASE recv_buffer = <<>> /\ to_client[sock] = <<h, t>>
    <3>1. Len(to_client[sock]) = 2 /\ (n = 1 \/ n = 2)
      BY <2>2, Prefixes
    <3>2. CASE n = 1 BY <1>3, <1>7, <2>2, <3>1, <3>2, Prefixes
    <3>3. CASE n = 2
      <4>1. recv_buffer' = <<>> \o SubSeq(<<h, t>>, 1, 2) /\ to_client'[sock] = SubSeq(<<h, t>>, 3, 2)
        BY <1>3, <1>7, <2>2, <3>1, <3>3
      <4> QED BY <4>1, Prefixes
    <3> QED BY <3>1, <3>2, <3>3
  <2>3. CASE recv_buffer = <<h>> /\ to_client[sock] = <<t>>
    <3>1. Len(to_client[sock]) = 1 /\ n = 1
      BY <2>3, Prefixes
    <3>2. recv_buffer' = <<h>> \o SubSeq(<<t>>, 1, 1) /\ to_client'[sock] = SubSeq(<<t>>, 2, 1)
      BY <1>3, <1>7, <2>3, <3>1
    <3>3. SubSeq(<<t>>, 1, 1) = <<t>> /\ SubSeq(<<t>>, 2, 1) = <<>> /\ <<h>> \o <<t>> = <<h, t>>
      BY Prefixes
    <3> QED BY <3>2, <3>3
  <2> QED BY <2>1, <2>2, <2>3
<1>12. Split(r, sock)'
  BY <1>1, <1>8, <1>9, <1>10, <1>11 DEF Split
<1>13. /\ to_client' = [c \in Conns |-> to_client'[c]]
       /\ \A c \in Conns : c # sock => to_client'[c] = to_client[c]
  BY <1>2, <1>3
<1>14. /\ TalkTyped' /\ Closed' /\ Fresh' /\ Drafts'
       /\ sock \in Conns => sock \notin left' /\ ~Unused(sock)'
  BY <1>1, <1>2, <1>13, UpdateTalks
<1>15. Booting' /\ OwnConn'
  BY <1>1, <1>14 DEF Talk, Booting, OwnConn, Zero, Unused
<1>16. Talking'
  <2>1. Fits(r)' /\ Rs' = Rs /\ to_server'[sock] = <<>> /\ ~Working(sock)'
    BY <1>1, <1>5, <1>6 DEF Fits, Rs, Counts, Answering, Working
  <2>2. Answering(sock)'
    BY <1>1, <1>12, <2>1 DEF Answering
  <2> QED BY <1>1, <2>2 DEF Talk, Talking
<1> QED BY <1>14, <1>15, <1>16 DEF Talk

LEMMA TakeTalks == Inv /\ Talk /\ TakeLine => Talk'
<1> SUFFICES ASSUME Inv, Talk, TakeLine PROVE Talk'
  OBVIOUS
<1>1. /\ update = "recv" /\ Newlines # {} /\ update' = "show" /\ sock_lock' = "free"
      /\ UNCHANGED <<serverVars, sock, connected, last_stats>>
  BY DEF TakeLine
<1>2. /\ UNCHANGED <<counters, server, report, backlog, to_server, to_client, left, ended>>
      /\ UNCHANGED <<boot, stats, thread>>
  BY <1>1 DEF serverVars, network, counters, server
<1>3. /\ to_server = [c \in Conns |-> to_server[c]] /\ to_client = [c \in Conns |-> to_client[c]]
      /\ connected \in BOOLEAN /\ last_stats \in Rs /\ sock \in Conns
  BY <1>1 DEF Talk, TalkTyped, Rs, OwnConn
<1>4. recv_buffer # <<>>
  BY <1>1 DEF Newlines
<1>5. Answering(sock)
  BY <1>1, <1>4 DEF Talk, Talking, Asked, Composing, Over
<1>6. PICK r \in Rs : Fits(r) /\ Split(r, sock)
  BY <1>5 DEF Answering
<1>7. recv_buffer = Line(r) /\ to_client[sock] = <<>> /\ Newlines = {2}
  BY <1>1, <1>3, <1>6, AnswerIn
<1>8. response' = Line(r) /\ recv_buffer' = <<>>
  <2>1. \E i \in Newlines : \A j \in Newlines : i <= j
    BY <1>7
  <2>2. PICK end \in Newlines :
          /\ response' = SubSeq(recv_buffer, 1, end)
          /\ recv_buffer' = SubSeq(recv_buffer, end + 1, Len(recv_buffer))
    BY <2>1 DEF TakeLine
  <2>3. end = 2 /\ end + 1 = 3
    BY <1>7
  <2>4. PICK h : h = <<"head", r>> OBVIOUS
  <2>5. PICK t : t = <<"tail", r>> OBVIOUS
  <2>6. Line(r) = <<h, t>>
    BY <2>4, <2>5 DEF Line
  <2>7. recv_buffer = <<h, t>> /\ Len(recv_buffer) = 2
    BY <1>7, <2>6, Prefixes
  <2>8. response' = SubSeq(<<h, t>>, 1, 2) /\ recv_buffer' = SubSeq(<<h, t>>, 3, 2)
    BY <2>2, <2>3, <2>7
  <2> QED BY <2>6, <2>8, Prefixes
<1>9. sock_lock' = IF update' \in {"recv", "nap"} THEN "update" ELSE "free"
  BY <1>1
<1>10. /\ TalkTyped' /\ Closed' /\ Fresh' /\ Drafts'
       /\ sock \in Conns => sock \notin left' /\ ~Unused(sock)'
  BY <1>1, <1>2, <1>3, <1>9, UpdateTalks
<1>11. Booting' /\ OwnConn'
  BY <1>1, <1>2, <1>3, <1>10 DEF Talk, Booting, OwnConn, Zero, Unused
<1>12. Talking'
  <2>1. Fits(r)' /\ Rs' = Rs
    BY <1>1, <1>2, <1>6 DEF Fits, Rs, Counts
  <2>2. Quiet(sock)'
    BY <1>1, <1>2, <1>5, <1>7 DEF Answering, Quiet, Working
  <2> QED BY <1>1, <1>2, <1>8, <2>1, <2>2 DEF Talk, Talking, Line
<1> QED BY <1>10, <1>11, <1>12 DEF Talk

LEMMA EndTalks == Inv /\ Talk /\ ReceiveEnd => Talk'
<1> SUFFICES ASSUME Inv, Talk, ReceiveEnd PROVE Talk'
  OBVIOUS
<1>1. /\ update = "recv" /\ Newlines = {} /\ update' = "error" /\ sock_lock' = "free"
      /\ UNCHANGED <<serverVars, sock, connected, recv_buffer, last_stats>>
  BY DEF ReceiveEnd
<1>2. /\ UNCHANGED <<counters, server, report, backlog, to_server, to_client, left, ended>>
      /\ UNCHANGED <<boot, stats, thread>>
  BY <1>1 DEF serverVars, network, counters, server
<1>3. /\ to_server = [c \in Conns |-> to_server[c]] /\ to_client = [c \in Conns |-> to_client[c]]
      /\ connected \in BOOLEAN /\ last_stats \in Rs /\ sock \in Conns
  BY <1>1 DEF Talk, TalkTyped, Rs, OwnConn
<1>4. to_client[sock] = <<>> /\ sock \in ended
  BY <1>3 DEF ReceiveEnd, Arriving
<1>5. ~Composing(sock)
  BY <1>3, <1>4 DEF Composing, Working, Started, Talk, Closed
<1>6. ~Answering(sock)
  <2> SUFFICES ASSUME NEW r \in Rs, Split(r, sock) PROVE FALSE
    BY DEF Answering
  <2>1. to_client[sock] = Line(r) \/ to_client[sock] = <<<<"tail", r>>>>
    BY <1>1, <1>3, AnswerIn
  <2> QED BY <1>4, <2>1 DEF Line
<1>7. recv_buffer = <<>> /\ ~Working(sock)
  BY <1>1, <1>5, <1>6 DEF Talk, Talking, Asked, Over
<1>8. sock_lock' = IF update' \in {"recv", "nap"} THEN "update" ELSE "free"
  BY <1>1
<1>9. /\ TalkTyped' /\ Closed' /\ Fresh' /\ Drafts'
      /\ sock \in Conns => sock \notin left' /\ ~Unused(sock)'
  BY <1>1, <1>2, <1>3, <1>8, UpdateTalks
<1>10. Booting' /\ OwnConn'
  BY <1>1, <1>2, <1>9 DEF Talk, Booting, OwnConn, Zero, Unused
<1>11. Talking'
  BY <1>1, <1>2, <1>4, <1>7 DEF Talk, Talking, Quiet, Working
<1> QED BY <1>9, <1>10, <1>11 DEF Talk

\* The line is shown: it is a report, and no counter of it is below what was shown.
LEMMA ShowTalks ==
  Inv /\ Talk /\ Show => Talk' /\ \A k \in Counters : last_stats[k] <= last_stats'[k]
<1> SUFFICES ASSUME Inv, Talk, Show
             PROVE  Talk' /\ \A k \in Counters : last_stats[k] <= last_stats'[k]
  OBVIOUS
<1>1. /\ update = "show" /\ update' = "check"
      /\ UNCHANGED <<serverVars, sock, connected, sock_lock, recv_buffer>>
  BY DEF Show
<1>2. /\ UNCHANGED <<counters, server, report, backlog, to_server, to_client, left, ended>>
      /\ UNCHANGED <<boot, stats, thread>>
  BY <1>1 DEF serverVars, network, counters, server
<1>3. PICK r \in Rs : Fits(r) /\ response = Line(r)
  BY <1>1 DEF Talk, Talking
<1>4. last_stats' = r
  <2>1. Len(response) = 2 /\ response[1][2] = r
    BY <1>3 DEF Line
  <2> QED BY <1>3, <2>1 DEF Show, IsReport
<1>5. /\ to_server = [c \in Conns |-> to_server[c]] /\ to_client = [c \in Conns |-> to_client[c]]
      /\ connected \in BOOLEAN
      /\ sock_lock' = IF update' \in {"recv", "nap"} THEN "update" ELSE "free"
  BY <1>1 DEF Talk, TalkTyped
<1>6. /\ TalkTyped' /\ Closed' /\ Fresh' /\ Drafts'
      /\ sock \in Conns => sock \notin left' /\ ~Unused(sock)'
  BY <1>1, <1>2, <1>4, <1>5, UpdateTalks
<1>7. Booting' /\ OwnConn'
  BY <1>1, <1>2, <1>6 DEF Talk, Booting, OwnConn, Unused
<1>8. Talking'
  BY <1>1, <1>2, <1>3, <1>4 DEF Talk, Talking, Quiet, Working, Fits
<1> QED BY <1>3, <1>4, <1>6, <1>7, <1>8 DEF Talk, Fits

\* No step takes back what is shown.
LEMMA ShownStep == Inv /\ Talk /\ [Next]_vars => \A k \in Counters : last_stats[k] <= last_stats'[k]
<1> SUFFICES ASSUME Inv, Talk, [Next]_vars
             PROVE  \A k \in Counters : last_stats[k] <= last_stats'[k]
  OBVIOUS
<1>1. CASE Show BY <1>1, ShowTalks
<1>2. CASE ~Show
  <2>1. last_stats' = last_stats
    BY <1>2 DEF Next, vars, gui, auto_connect, toggle_connection, Window, clear_flag, WindowLocks,
                Connected, Refused, OutOfConns, disconnect, Ask, Update, Look, Nap, Receive,
                TakeLine, ReceiveEnd, DropFlag, DropBuffer, OtherConnects, OtherLeaves
  <2> QED BY <2>1 DEF Talk, TalkTyped, Counts
<1> QED BY <1>1, <1>2

-----------------------------------------------------------------------------

\* The whole invariant, of the server and of the window's conversation with it.
THEOREM Conversation == Spec => [](Inv /\ Talk)
<1>1. Init => Inv /\ Talk
  BY Initially, TalkInitially
<1>2. Inv /\ Talk /\ [Next]_vars => Talk'
  <2> SUFFICES ASSUME Inv, Talk, [Next]_vars PROVE Talk'
    OBVIOUS
  <2>1. CASE ServerNext /\ UNCHANGED gui BY <2>1, ServerKeepsTalk
  <2>2. CASE auto_connect \/ toggle_connection \/ Window \/ WindowLocks
    BY <2>2, WindowKeepsTalk
  <2>3. CASE Ask BY <2>3, AskTalks
  <2>4. CASE Update
    <3>1. CASE Look \/ Nap \/ DropFlag \/ DropBuffer BY <3>1, PauseTalks
    <3>2. CASE Receive BY <3>2, ReceiveTalks
    <3>3. CASE TakeLine BY <3>3, TakeTalks
    <3>4. CASE ReceiveEnd BY <3>4, EndTalks
    <3>5. CASE Show BY <3>5, ShowTalks
    <3> QED BY <2>4, <3>1, <3>2, <3>3, <3>4, <3>5 DEF Update
  <2>5. CASE \E c \in Others : OtherConnects(c) \/ OtherLeaves(c) BY <2>5, OthersKeepTalk
  <2>6. CASE UNCHANGED vars
    <3>1. UNCHANGED <<boot, stats, report, to_server, to_client, left, ended, thread, acceptor,
                      backlog, gui>>
      BY <2>6 DEF vars, serverVars, counters, server, network
    <3>2. UsedStays
      BY <3>1 DEF UsedStays, Unused
    <3>3. Closed'
      BY <3>1 DEF Talk, Closed, Holding, Started, At
    <3>4. /\ to_server = [c \in Conns |-> to_server[c]]
          /\ \A c \in Conns : (Working(c)' <=> Working(c)) /\ (At(c, "send")' <=> At(c, "send"))
      BY <3>1 DEF Talk, TalkTyped, Working, At
    <3> QED BY <3>1, <3>2, <3>3, <3>4, ServerTalks
  <2> QED BY <2>1, <2>2, <2>3, <2>4, <2>5, <2>6 DEF Next
<1> QED BY <1>1, <1>2, Invariance, PTL DEF Spec

\* The types of the window's variables and of the counters it is sent
\* (monitor_gui.py, protocol_stats.c).
THEOREM WindowTyped == Spec => []TypeOK
<1>1. Inv /\ Talk => TypeOK
  <2> SUFFICES ASSUME Inv, Talk PROVE TypeOK
    OBVIOUS
  <2>1. sock_lock \in {"free", "update"}
    BY Zenon DEF Talk, TalkTyped
  <2> QED BY <2>1, ConnsAssumption DEF Inv, Talk, TalkTyped, TypeOK, Counts
<1> QED BY <1>1, Conversation, PTL

\* While the lock is free nothing of a request or an answer is left on the window's
\* connection, in the server or in the buffer, although recv waits without a
\* time-out and connections come and go (monitor_gui.py, update_data_thread).
THEOREM NothingLate == Spec => []NoAnswerLate
<1>1. Inv /\ Talk => NoAnswerLate
  <2> SUFFICES ASSUME Talk, sock_lock = "free", sock \in Conns \ ended
               PROVE  /\ to_server[sock] = <<>> /\ to_client[sock] = <<>> /\ recv_buffer = <<>>
                      /\ thread[sock].pc \notin {"read", "send"}
    BY DEF NoAnswerLate
  <2>1. update # "recv"
    BY DEF Talk, TalkTyped
  <2> QED BY <2>1 DEF Talk, Talking, Quiet, Working
<1> QED BY <1>1, Conversation, PTL

\* What the window shows never goes back, for any number of counters and
\* connections.
THEOREM ShownGrows == Spec => ShownNeverGoesBack
<1>1. Inv /\ Talk /\ [Next]_vars => [\A k \in Counters : last_stats[k] <= last_stats'[k]]_vars
  BY ShownStep
<1> QED BY <1>1, Conversation, PTL DEF Spec, ShownNeverGoesBack
=============================================================================
