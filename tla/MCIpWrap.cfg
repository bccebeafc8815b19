SPECIFICATION Spec
CONSTANTS
  peer1 = peer1
  peer2 = peer2
  Peers <- MCPeers
  Lens <- OverLong
  Loads <- Fours
  OffsetUnit = 2
  LenMod = 18
  IdMod = 4
  NodeSlots = 1
  FragTimeout = 1
  MaxFragments = 5
  Horizon = 1
  MaxSends = 1
INVARIANT
  Intact
