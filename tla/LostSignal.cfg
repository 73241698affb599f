CONSTANTS
  h0 = h0
  h1 = h1
  NoPayload = NoPayload
  NoData = NoData
  NoHost = NoHost
  Hosts <- MCHosts
  PktAddrs <- MCPktAddrs
  Tags <- MCTags
  PayloadNum = 2
  BufferSize = 3
  Programs <- TwiceEach
SPECIFICATION FairSpec
PROPERTY
  RunCompletes
CHECK_DEADLOCK FALSE
