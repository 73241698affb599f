CONSTANTS
  Host = Host
  NoPayload = NoPayload
  NoData = NoData
  NoHost = NoHost
  Hosts <- MCHosts
  PktAddrs <- MCPktAddrs
  Tags <- MCTags
  PayloadNum = 2
  ReadReqs <- MCReadReqs
  WriteReqs <- OneWrite
SPECIFICATION PortsSpec
CHECK_DEADLOCK FALSE
PROPERTY
  AllReach
