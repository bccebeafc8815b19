SPECIFICATION Spec
CONSTANTS
  c1 = c1
  c2 = c2
  o1 = o1
  h1 = h1
  h2 = h2
  Ours <- MCOurs
  Others <- MCOthers
  Conns <- MCConns
  Handles <- MCHandles
  Counters <- MCCounters
  MaxClients = 1
  MaxCount = 1
  MaxClicks = 2
INVARIANTS
  TypeOK
  OneOwner
  OwnSocket
  NoSlotLost
  NoAnswerLate
PROPERTIES
  ShownNeverGoesBack
  SlotsComeBack
  ClickReturns
CHECK_DEADLOCK FALSE
