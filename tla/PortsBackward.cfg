CONSTANTS
  Host = Host
  NoPayload = NoPayload
  NoData = NoData
  NoHost = NoHost
  Hosts <- MCHosts
  PktAddrs <- MCPktAddrs
  Tags <- MCTags
  PayloadNum = 3
  Acks <- MCAcks
  Period = 3
  PortLatency = 4
  LinkLatency = 1
  Pipeline = 2
SPECIFICATION PortsSpec
INVARIANTS
  PacedInv
PROPERTIES
  SlotNeverOverwritten
  ImplementsLink
  AllArrive
