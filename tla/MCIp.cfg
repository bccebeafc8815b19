SPECIFICATION Spec
CONSTANTS
  peer1 = peer1
  peer2 = peer2
  Peers <- MCPeers
  Lens <- Mixed
  Loads <- TwosAndFours
  OffsetUnit = 2
  LenMod = 16
  IdMod = 4
  NodeSlots = 2
  FragTimeout = 1
  MaxFragments = 3
  Horizon = 3
  MaxSends = 2
INVARIANTS
  TypeOK
  NodesInOrder
  Intact
  FreshPieces
  NothingCompleteWaits
SYMMETRY Alike
