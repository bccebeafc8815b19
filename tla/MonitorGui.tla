----------------------------- MODULE MonitorGui -----------------------------
(***************************************************************************)
(* The monitor's window (src/monitor_gui.py) with the server it talks to.  *)
(* Two threads of the window's process share a socket, the flag            *)
(* "connected", a buffer and sock_lock: the window thread, which runs the  *)
(* button and auto_connect, and update_data_thread, which asks for the     *)
(* counters and waits for the answer with the lock held.  Other programs   *)
(* connect to the server and leave again.                                  *)
(***************************************************************************)
EXTENDS Monitor

CONSTANTS Ours, Others,   \* connections of the window, of other programs
          MaxClicks       \* bound on clicks on the button

ASSUME ConnsAssumption == Conns = Ours \cup Others /\ Ours \cap Others = {}

VARIABLES
  sock,          \* a connection, or
  connected,     \* the flag
  sock_lock,     \* who holds the lock
  recv_buffer,
  window,        \* where the window thread is
  update,        \* where update_data_thread is
  response,      \* the line it has taken from the buffer
  last_stats,
  auto, clicks

gui == <<sock, connected, sock_lock, recv_buffer, window, update, response, last_stats,
         auto, clicks>>
vars == <<serverVars, gui>>

None == "None"                  \* no socket
Unconnected == "unconnected"    \* a socket whose connect failed
ASSUME SocketNamesAssumption == {None, Unconnected} \cap Conns = {}

Init ==
  /\ ServerInit
  /\ sock = None /\ connected = FALSE /\ sock_lock = "free"
  /\ recv_buffer = <<>> /\ response = <<>> /\ last_stats = Zero
  /\ window = "idle" /\ update = "check"
  /\ auto = "scheduled" /\ clicks = 0

Unused(c) == c \notin left /\ thread[c] = NoThread /\ acceptor.conn # c
             /\ (\A i \in DOMAIN backlog : backlog[i] # c) /\ c \notin ended

\* The client's side of connection s, if it is one, is closed: what it has not
\* read is lost.
Leave(s) ==
  /\ left' = IF s \in Conns THEN left \cup {s} ELSE left
  /\ to_client' = [c \in Conns |-> IF c = s THEN <<>> ELSE to_client[c]]

-----------------------------------------------------------------------------
(* The window thread *)

\* The 500 ms after the start are over.
auto_connect ==
  /\ window = "idle" /\ auto = "scheduled"
  /\ auto' = "run" /\ window' = "auto_connect"
  /\ UNCHANGED <<serverVars, sock, connected, sock_lock, recv_buffer, update, response,
                 last_stats, clicks>>

\* The button.
toggle_connection ==
  /\ window = "idle" /\ clicks < MaxClicks
  /\ clicks' = clicks + 1
  /\ window' = IF connected THEN "disconnect" ELSE "connect"
  /\ UNCHANGED <<serverVars, sock, connected, sock_lock, recv_buffer, update, response,
                 last_stats, auto>>

\* connect and auto_connect under the lock: a socket that is replaced is closed
\* with its last reference.
Connected(c) ==
  /\ window \in {"connect", "auto_connect"} /\ sock_lock = "free"
  /\ Listening /\ Unused(c)
  /\ backlog' = Append(backlog, c)
  /\ Leave(sock)
  /\ sock' = c /\ connected' = TRUE /\ window' = "idle"
  /\ UNCHANGED <<counters, server, report, to_server, ended, sock_lock,
                 recv_buffer, update, response, last_stats, auto, clicks>>

\* The stack is not running yet: the exception leaves the new socket behind, and
\* auto_connect leaves the flag as it was.
Refused ==
  /\ window \in {"connect", "auto_connect"} /\ sock_lock = "free"
  /\ ~Listening
  /\ Leave(sock)
  /\ sock' = Unconnected
  /\ window' = IF window = "connect" THEN "clear_flag" ELSE "idle"
  /\ UNCHANGED <<counters, server, report, backlog, to_server, ended, connected,
                 sock_lock, recv_buffer, update, response, last_stats, auto, clicks>>

\* No connection of the model is left to make: the click is not looked at further.
OutOfConns ==
  /\ window \in {"connect", "auto_connect"} /\ sock_lock = "free"
  /\ Listening /\ \A c \in Ours : ~Unused(c)
  /\ window' = "idle"
  /\ UNCHANGED <<serverVars, sock, connected, sock_lock, recv_buffer, update, response,
                 last_stats, auto, clicks>>

\* disconnect under the lock; the flag is cleared after it.
disconnect ==
  /\ window = "disconnect" /\ sock_lock = "free"
  /\ Leave(sock)
  /\ sock' = None /\ recv_buffer' = <<>> /\ window' = "clear_flag"
  /\ UNCHANGED <<counters, server, report, backlog, to_server, ended, connected,
                 sock_lock, update, response, last_stats, auto, clicks>>

clear_flag ==
  /\ window = "clear_flag"
  /\ connected' = FALSE /\ window' = "idle"
  /\ UNCHANGED <<serverVars, sock, sock_lock, recv_buffer, update, response, last_stats,
                 auto, clicks>>

Window == clear_flag
WindowLocks == (\E c \in Ours : Connected(c)) \/ Refused \/ OutOfConns \/ disconnect

-----------------------------------------------------------------------------
(* update_data_thread *)

\* The first look at flag and socket, without the lock.
Look ==
  /\ update = "check" /\ connected /\ sock # None
  /\ update' = "lock"
  /\ UNCHANGED <<serverVars, sock, connected, sock_lock, recv_buffer, window, response,
                 last_stats, auto, clicks>>

\* The second look, with the lock, and the request.  On a socket that is not
\* connected sendall raises an OSError, and the lock is free again.
Ask ==
  /\ update = "lock" /\ sock_lock = "free"
  /\ IF sock = None \/ ~connected
     THEN sock_lock' = "update" /\ update' = "nap" /\ UNCHANGED to_server
     ELSE IF sock = Unconnected
     THEN update' = "check" /\ UNCHANGED <<sock_lock, to_server>>
     ELSE /\ sock_lock' = "update" /\ update' = "recv"
          /\ to_server' = [to_server EXCEPT ![sock] = Append(@, "GET_STATS")]
  /\ UNCHANGED <<counters, server, report, backlog, to_client, left, ended, sock, connected,
                 recv_buffer, window, response, last_stats, auto, clicks>>

\* A second's sleep with the lock held.
Nap ==
  /\ update = "nap"
  /\ update' = "check" /\ sock_lock' = "free"
  /\ UNCHANGED <<serverVars, sock, connected, recv_buffer, window, response, last_stats,
                 auto, clicks>>

Newlines == {i \in DOMAIN recv_buffer : recv_buffer[i][1] = "tail"}

\* recv blocks with the lock held, until part of a line is there.
Arriving == IF sock \in Conns THEN to_client[sock] ELSE <<>>
Receive ==
  /\ update = "recv" /\ Newlines = {}
  /\ \E n \in 1..Len(Arriving) :
       /\ recv_buffer' = recv_buffer \o SubSeq(Arriving, 1, n)
       /\ to_client' = [to_client EXCEPT ![sock] = SubSeq(@, n + 1, Len(@))]
  /\ UNCHANGED <<counters, server, report, backlog, to_server, left, ended, sock, connected,
                 sock_lock, window, update, response, last_stats, auto, clicks>>

TakeLine ==
  /\ update = "recv" /\ Newlines # {}
  /\ LET end == CHOOSE i \in Newlines : \A j \in Newlines : i <= j IN
       /\ response' = SubSeq(recv_buffer, 1, end)
       /\ recv_buffer' = SubSeq(recv_buffer, end + 1, Len(recv_buffer))
  /\ update' = "show" /\ sock_lock' = "free"
  /\ UNCHANGED <<serverVars, sock, connected, window, last_stats, auto, clicks>>

\* Mutant: the end of the stream is taken for an empty part.
receive_end_ignored == FALSE /\ UNCHANGED vars

\* Mutant: recv has a time-out, after which the thread asks again.
receive_gives_up ==
  /\ update = "recv" /\ Newlines = {}
  /\ update' = IF sock \in ended THEN "error" ELSE "check"
  /\ sock_lock' = "free"
  /\ UNCHANGED <<serverVars, sock, connected, recv_buffer, window, response, last_stats,
                 auto, clicks>>

\* The server has closed the connection: recv returns nothing, or the connection
\* was reset.
ReceiveEnd ==
  /\ update = "recv" /\ Newlines = {} /\ Arriving = <<>>
  /\ sock \in ended \/ sock \notin Conns
  /\ update' = "error" /\ sock_lock' = "free"
  /\ UNCHANGED <<serverVars, sock, connected, recv_buffer, window, response, last_stats,
                 auto, clicks>>

\* A line that is one report is shown; anything else is no JSON.
IsReport(line) == Len(line) = 2 /\ line = Line(line[1][2])
Show ==
  /\ update = "show"
  /\ last_stats' = IF IsReport(response) THEN response[1][2] ELSE last_stats
  /\ update' = "check" /\ response' = <<>>
  /\ UNCHANGED <<serverVars, sock, connected, sock_lock, recv_buffer, window, auto, clicks>>

\* After the exception, without the lock: first the flag, then the buffer.
DropFlag ==
  /\ update = "error"
  /\ connected' = FALSE /\ update' = "drop_buffer"
  /\ UNCHANGED <<serverVars, sock, sock_lock, recv_buffer, window, response, last_stats,
                 auto, clicks>>
DropBuffer ==
  /\ update = "drop_buffer"
  /\ recv_buffer' = <<>> /\ update' = "check"
  /\ UNCHANGED <<serverVars, sock, connected, sock_lock, window, response, last_stats,
                 auto, clicks>>

Update == Look \/ Nap \/ Receive \/ TakeLine \/ ReceiveEnd \/ Show \/ DropFlag \/ DropBuffer

-----------------------------------------------------------------------------
(* Other programs *)

OtherConnects(c) ==
  /\ Listening /\ Unused(c)
  /\ backlog' = Append(backlog, c)
  /\ UNCHANGED <<counters, server, report, to_server, to_client, left, ended, gui>>
OtherLeaves(c) ==
  /\ ~Unused(c) /\ c \notin left \cup ended
  /\ Leave(c)
  /\ UNCHANGED <<counters, server, report, backlog, to_server, ended, gui>>

Next ==
  \/ ServerNext /\ UNCHANGED gui
  \/ auto_connect \/ toggle_connection \/ Window \/ WindowLocks
  \/ Ask \/ Update
  \/ \E c \in Others : OtherConnects(c) \/ OtherLeaves(c)

\* Both threads of the window run.  For the lock strong fairness: each thread is
\* away from it for a second in every turn, so that the other finds it free again
\* and again.  Clicks and other programs may come or not.
Fairness ==
  /\ ServerFairness
  /\ WF_vars(Window) /\ WF_vars(Update)
  /\ SF_vars(WindowLocks) /\ SF_vars(Ask)

Spec == Init /\ [][Next]_vars /\ Fairness

-----------------------------------------------------------------------------

\* Type invariant.
TypeOK ==
  /\ stats \in [Counters -> 0..(MaxCount + 1)]
  /\ ServerTypeOK
  /\ sock \in Conns \cup {None, Unconnected} /\ connected \in BOOLEAN
  /\ sock_lock \in {"free", "update"}
  /\ last_stats \in [Counters -> 0..(MaxCount + 1)]

\* No answer is late: while the lock is free, nothing of a request or an answer is
\* under way on the connection of the window, at work in the server or left in the
\* buffer.  What the window shows is therefore the answer to its last request, and
\* one whole line, and no part of an answer outlives its connection.
NoAnswerLate ==
  sock_lock = "free" /\ sock \in Conns \ ended =>
    /\ to_server[sock] = <<>> /\ to_client[sock] = <<>> /\ recv_buffer = <<>>
    /\ thread[sock].pc \notin {"read", "send"}

\* What the window shows never goes back, from one connection to the next either,
\* although reports are put together while the counters change.
ShownNeverGoesBack ==
  [][\A k \in Counters : last_stats[k] <= last_stats'[k]]_vars

\* The window comes back from every click and from auto_connect, although the other
\* thread waits for the server with the lock held.
ClickReturns == (window # "idle") ~> (window = "idle")
=============================================================================
