CONSTANTS
  Host = Host
  NoPayload = NoPayload
  NoData = NoData
  NoHost = NoHost
  Hosts <- MCHosts
  PktAddrs <- MCPktAddrs
  Tags <- MCTags
  PayloadNum = 4
  ReadReqs <- MCReadReqs
  WriteReqs <- MCWriteReqs
SPECIFICATION PortsSpec
CHECK_DEADLOCK FALSE
INVARIANTS
  FlitInv
  EndToEnd
PROPERTIES
  ImplementsLink
  AllReach
