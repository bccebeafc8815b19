SPECIFICATION Spec
CONSTANTS
  Apps = {"icmp_server", "udp_server"}
  SelfIp = 1
  LoopbackIp = 0
  Peers = {2, 3}
  Targets <- MCTargets
  SelfBits <- MCSelfBits
  InterfaceLists <- MCInterfaceLists
  ServerPort = 1
  Ports = {1, 2}
  Payloads = {1}
  WordMod = 4
  BufMaxLen = 22
  EthLen = 2
  IpLen = 2
  UdpLen = 3
  PseudoLen = 2
  FrameMax = 10
  ShortLen = 5
  HdrLens = {0, 2, 4}
  HdrLenMax = 4
  TicksPerSecond = 2
  PingTestTime = 2
  ShortestInit = 2
  Long = 3
  MaxFrames <- MCMaxFrames
INVARIANTS
  TypeOK
  RequestsRecorded
  RepliesCountedOnce
  AnswersGoBack
  DamageShows
  UndamagedHeard
  AnswersVerify
  RxbufLasts
  
  BestInterface
PROPERTY
  EveryPingEnds
CHECK_DEADLOCK FALSE
