-------------------------------- MODULE MCTcp --------------------------------
(* One host that connects to an open and to a closed port, or to the open one *)
(* only, or two hosts.  Two segments of two bytes each; the handler answers a *)
(* byte or nothing.  Client numbers wrap within the first segment.            *)
EXTENDS Tcp
CONSTANTS host1, host2, http, shut
OneHost == {host1}
TwoHosts == {host1, host2}
OpenPort == {http}
BothPorts == {http, shut}
Nowhere == {}
SilentOrOne == {0, 1}
=============================================================================
