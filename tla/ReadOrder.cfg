CONSTANTS
  h0 = h0
  h1 = h1
  NoPayload = NoPayload
  NoData = NoData
  NoHost = NoHost
  Hosts <- MCHosts
  PktAddrs <- MCPktAddrs
  Tags <- MCPktAddrs
  PayloadNum = 2
  BufferSize = 3
  Programs <- JustBurst
SPECIFICATION Spec
INVARIANT
  ReadInOrder
