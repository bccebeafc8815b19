SPECIFICATION Spec
CONSTANTS
  ip1 = ip1
  ip2 = ip2
  mac1 = mac1
  mac2 = mac2
  Ips <- MCIps
  Macs <- MCMacs
  TableSlots = 2
  BufferSlots = 1
  ArpTimeout = 2
  MinInterval = 1
  Horizon = 4
  MaxPackets = 3
PROPERTY
  RequestsPaced
