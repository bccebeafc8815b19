------------------------------ MODULE MCMonitor ------------------------------
(* One slot, for which two connections of the window and one of another       *)
(* program compete; two handles, so that they are used again at once; one     *)
(* counter.                                                                   *)
EXTENDS MonitorGui
CONSTANTS c1, c2, o1, h1, h2
MCOurs == {c1, c2}
MCOthers == {o1}
MCConns == {c1, c2, o1}
MCHandles == {h1, h2}
MCCounters == {"ethernet"}
=============================================================================
