-------------------------------- MODULE MCIp --------------------------------
(* Offsets count pairs of bytes.  Datagrams of three, six or seven bytes, cut *)
(* into pieces of four or two: one to four fragments, against a limit of      *)
(* three to a node.  Two peers, which number their datagrams alike and are    *)
(* interchangeable; two nodes, which wait for a second each.                  *)
EXTENDS Ip, TLC
CONSTANTS peer1, peer2
MCPeers == {peer1, peer2}
Alike == Permutations(MCPeers)
Mixed == {3, 6, 7}
TwosAndFours == {2, 4}
OverLong == {19}
Fours == {4}
=============================================================================
