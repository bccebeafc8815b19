---------------------------- MODULE MCMapService ----------------------------
(* Three keys for two slots, so that the map is full with a key to spare;  *)
(* a map that never expires and one that expires after a second.           *)
EXTENDS MapService

CONSTANTS k1, k2, k3, v1, v2

MCKeys == {k1, k2, k3}
MCValues == {v1, v2}
MCLives == {0, 1}
=============================================================================
