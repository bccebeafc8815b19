SPECIFICATION Spec
CONSTANTS
  host1 = host1
  host2 = host2
  http = http
  shut = shut
  Hosts <- TwoHosts
  Ports <- OpenPort
  Open <- OpenPort
  Closable <- Nowhere
  ConnSlots = 1
  Total = 4
  SegLen = 2
  Answers <- SilentOrOne
  SeqMod = 32
  ClientIsn = 30
  MaxIncarnations = 2
  MaxUpsets = 0
  MaxBacklog = 4
CHECK_DEADLOCK FALSE
INVARIANT
  NullOnlyWhenFull
