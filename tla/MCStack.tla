------------------------------- MODULE MCStack -------------------------------
(* Words of two bits, two peers, an open and a closed port; two targets, the  *)
(* second the loopback address, two requests each; seconds of two ticks; all  *)
(* lists of two interfaces with one address and of one interface with two,    *)
(* over addresses of three bits.  IP headers without options, with, and of a  *)
(* length that is none.  Three frames: an answer can come twice and another   *)
(* late, and the third no longer fits the buffer after two datagrams with     *)
(* options.                                                                   *)
EXTENDS Stack
MCMaxFrames == [icmp_server |-> 3, udp_server |-> 3]
MCTargets == <<2, 0>>
MCSelfBits == <<1, 0, 1>>
Bits == {<<a, b, c>> : a, b, c \in 0..1}
Address == {[inet |-> TRUE, addr |-> x, mask |-> m] : x \in Bits, m \in {<<1, 0, 0>>, <<1, 1, 0>>}}
             \cup {[inet |-> FALSE]}
Interface == {<<>>} \cup {<<a>> : a \in Address}
MCInterfaceLists ==
  {<<>>} \cup {<<d>> : d \in Interface} \cup {<<d, e>> : d, e \in Interface}
    \cup {<<<<a, b>>>> : a, b \in Address}
=============================================================================
