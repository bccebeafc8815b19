-------------------------------- MODULE MCArp --------------------------------
(* Two peers and two hardware addresses, so that a peer can change its own;  *)
(* one slot to wait in and two in the table, so that both fill up; times     *)
(* scaled so that waiting packets and table entries expire within the run.   *)
EXTENDS Arp
CONSTANTS ip1, ip2, mac1, mac2
MCIps == {ip1, ip2}
MCMacs == {mac1, mac2}
=============================================================================
